---- MODULE Spec2Model ----
(***************************************************************************)
(* A model of the reactive core of the library: the DependencyTracker      *)
(* (execution-context stack, forward and reverse dependency indices,       *)
(* batching queue, cycle guard) and the Signal built on it.                *)
(*                                                                         *)
(* The engine is single threaded and fully synchronous, but re-entrant:    *)
(* trigger runs subscriber updates, which may write signals, which call    *)
(* trigger again.  The model therefore keeps an explicit call stack `cs`   *)
(* of frames.  The structural edits of the Tracker (track, cleanupContext, *)
(* clearDependencies) call no user code and are single steps; every place  *)
(* where the library calls back into user code is a frame boundary.        *)
(***************************************************************************)
EXTENDS Integers, Sequences, FiniteSets, TLC

\* ------------------------------------------------------------------ objects

\* Signal instances of the modelled program.  d1 is the signal that
\* Signal.derived([s1, s2], fn) returns: the program makes one derived
\* signal, either the sum (x, y) => x + y or the guarded division of the
\* signal test.
Sigs == {"s1", "s2", "d1"}

\* Contexts: objects pushed on the execution stack, with an update() method.
\*   cm  a plain context carrying target/key fields (the object the tracker
\*       test builds to exercise the cycle guard): { target, key, update }
\*   cu  a plain context whose update() writes signal s1
\*   cp  a plain context whose update() does nothing
\*   ct  a plain context whose update() throws
\*   cx  a plain context whose update() calls cleanupContext(cp) and then
\*       subscribes cm to (s1, "value") with withTracking and track
\*   e1  an Effect whose body reads s1 and logs it
\*   e2  an Effect whose body reads s1 and writes s1 (self-referential)
\*   e3  an Effect whose body reads the Computed k1 and logs it
\*   k1  a Computed whose function is () => s1.value * 2
PlainCtxs == {"cm", "cu", "cp", "ct", "cx"}
Effects == {"e1", "e2", "e3"}
Computeds == {"k1"}
Ctxs == PlainCtxs \cup Effects \cup Computeds

\* Anything can be a target of track/trigger: signals, and contexts too.
Objs == Sigs \cup Ctxs

\* Property keys.  A Signal only ever uses "value".
Keys == {"value", "other"}

\* Direct subscriber callbacks handed to Signal.subscribe.
\*   cbLog    records the value it is called with
\*   cbWrite  writes signal s1 (a subscriber that itself writes a signal)
\*   cbThrow  throws
\*   cbMax    writes the largest value to s1, the signal it subscribes to
\*   cbDerive the callback Signal.derived subscribes to each dependency
\*   cbDivide the same callback of the derived signal made with the division
\*   cbNone   does nothing: () => {}
Cbs == {"cbLog", "cbWrite", "cbThrow", "cbMax", "cbDerive", "cbDivide", "cbNone"}

\* Update functions handed to queueUpdate by the caller itself.
\*   u1, u2  record that they ran
\*   ut      throws
UpdateFns == {"u1", "u2", "ut"}

NoCtx == "null"
NoExc == "none"
Circular == "circular"
UserError == "user"

\* ------------------------------------------------------------------ bounds

\* Largest signal value; values are 0..MaxVal.
MaxVal == 2
\* Depth of the modelled call stack (the real recursion ends in a stack overflow).
MaxDepth == 7

Vals == 0 .. MaxVal

\* ------------------------------------------------------------------ helpers

Range(s) == {s[i] : i \in DOMAIN s}

\* Set.prototype.add on an insertion-ordered Set: a present element keeps its place.
SetAdd(s, x) == IF x \in Range(s) THEN s ELSE Append(s, x)

\* Set.prototype.delete on an insertion-ordered Set.
SetDelete(s, x) == SelectSeq(s, LAMBDA y : y # x)

\* A target with no Map in #dependencies.
NoDeps == [has |-> FALSE, keys |-> {}, subs |-> [k \in Keys |-> <<>>]]

\* A context with no Map in #subscribers.
NoSubs == [has |-> FALSE, targets |-> {}, keys |-> [t \in Objs |-> {}]]

\* ------------------------------------------------------------------ Tracker, pure part

\* A current context taken from the bottom of the stack: the outermost one.
getCurrentContext_Outermost(stack) == IF Len(stack) > 0 THEN stack[1] ELSE NoCtx

\* getCurrentContext(): the top of the execution stack, or null.
getCurrentContext(stack) == IF Len(stack) > 0 THEN stack[Len(stack)] ELSE NoCtx

\* getDependencies(target): gives the target an empty Map in #dependencies
\* when it has none (the Map itself is what the call returns).
getDependencies(deps, target) ==
    IF deps[target].has THEN deps ELSE [deps EXCEPT ![target].has = TRUE]

\* getSubscribers(target): the same on #subscribers, keyed by the argument.
getSubscribers(rsubs, context) ==
    IF rsubs[context].has THEN rsubs ELSE [rsubs EXCEPT ![context].has = TRUE]

\* hasSubscribers(target, key).  `subscribers && subscribers.size > 0` yields
\* undefined, not false, when the target has a Map but the key has no Set.
hasSubscribers(deps, target, key) ==
    IF ~deps[target].has THEN "false"
    ELSE IF key \notin deps[target].keys THEN "undefined"
    ELSE IF Len(deps[target].subs[key]) > 0 THEN "true" ELSE "false"

\* A track that fetches (and so creates) the target's Map before it looks
\* for a current context.
track_MapBeforeCheck(deps, rsubs, stack, target, key) ==
    LET context == getCurrentContext(stack)
        d == deps[target]
    IN  IF context = NoCtx
        THEN [deps |-> [deps EXCEPT ![target].has = TRUE], subs |-> rsubs]
        ELSE [deps |-> [deps EXCEPT ![target] =
                            [has |-> TRUE,
                             keys |-> d.keys \cup {key},
                             subs |-> [d.subs EXCEPT ![key] = SetAdd(@, context)]]],
              subs |-> [rsubs EXCEPT ![context] =
                            [has |-> TRUE,
                             targets |-> @.targets \cup {target},
                             keys |-> [@.keys EXCEPT ![target] = @ \cup {key}]]]]

\* track(target, key): records the edge in the forward index (#dependencies)
\* and in the reverse index (#subscribers) for the current context.
track(deps, rsubs, stack, target, key) ==
    LET context == getCurrentContext(stack)
    IN  IF context = NoCtx
        THEN [deps |-> deps, subs |-> rsubs]
        ELSE LET d == deps[target]
                 nd == [has |-> TRUE,
                        keys |-> d.keys \cup {key},
                        subs |-> [d.subs EXCEPT ![key] = SetAdd(@, context)]]
                 r == rsubs[context]
                 nr == [has |-> TRUE,
                        targets |-> r.targets \cup {target},
                        keys |-> [r.keys EXCEPT ![target] = @ \cup {key}]]
             IN  [deps |-> [deps EXCEPT ![target] = nd],
                  subs |-> [rsubs EXCEPT ![context] = nr]]

\* #detectCircularDependency(target, key): some context on the execution
\* stack carries fields target and key equal to the pair being triggered.
\* CtxTarget/CtxKey are the context object's own `target` and `key` fields.
CtxTarget(c) == IF c = "cm" THEN "s1" ELSE "undefined"

CtxKey(c) == IF c = "cm" THEN "value" ELSE "undefined"

\* The cycle guard looking at the current context only instead of the whole stack.
detectCircularDependency_TopOnly(stack, target, key) ==
    /\ Len(stack) > 0
    /\ CtxTarget(stack[Len(stack)]) = target
    /\ CtxKey(stack[Len(stack)]) = key

detectCircularDependency(stack, target, key) ==
    \E i \in DOMAIN stack : CtxTarget(stack[i]) = target /\ CtxKey(stack[i]) = key

\* One target's forward entry after cleanupContext(context) visited it.
CleanedTarget(d, ks, context) ==
    LET ns == [k \in Keys |->
                 IF k \in ks /\ k \in d.keys THEN SetDelete(d.subs[k], context)
                 ELSE d.subs[k]]
        nk == {k \in d.keys : ~(k \in ks /\ ns[k] = <<>>)}
    IN  IF nk = {} THEN NoDeps
        ELSE [has |-> TRUE, keys |-> nk,
              subs |-> [k \in Keys |-> IF k \in nk THEN ns[k] ELSE <<>>]]

\* cleanupContext stopping after the first target of the reverse entry (a
\* return placed inside the loop): that target is unlinked, the rest stays.
cleanupContext_FirstTargetOnly(deps, rsubs, context) ==
    IF ~rsubs[context].has
    THEN [deps |-> deps, subs |-> rsubs]
    ELSE IF rsubs[context].targets = {}
    THEN [deps |-> deps, subs |-> [rsubs EXCEPT ![context] = NoSubs]]
    ELSE LET r == rsubs[context]
             t0 == CHOOSE t \in r.targets : TRUE
         IN  [deps |-> [t \in Objs |->
                          IF t = t0 /\ deps[t].has
                          THEN CleanedTarget(deps[t], r.keys[t], context)
                          ELSE deps[t]],
              subs |-> [rsubs EXCEPT ![context] =
                          IF r.targets = {t0} THEN NoSubs
                          ELSE [has |-> TRUE, targets |-> r.targets \ {t0},
                                keys |-> [r.keys EXCEPT ![t0] = {}]]]]

\* cleanupContext deleting the reverse entry only: the forward Sets keep
\* the context.
cleanupContext_ReverseOnly(deps, rsubs, context) ==
    [deps |-> deps, subs |-> [rsubs EXCEPT ![context] = NoSubs]]

\* cleanupContext(context): walks the context's reverse entry, removes the
\* context from each listed subscriber Set, prunes emptied Sets and Maps, and
\* deletes the reverse entry.  Without a reverse entry it returns at once.
cleanupContext(deps, rsubs, context) ==
    IF ~rsubs[context].has
    THEN [deps |-> deps, subs |-> rsubs]
    ELSE LET r == rsubs[context]
         IN  [deps |-> [t \in Objs |->
                          IF t \in r.targets /\ deps[t].has
                          THEN CleanedTarget(deps[t], r.keys[t], context)
                          ELSE deps[t]],
              subs |-> [rsubs EXCEPT ![context] = NoSubs]]

\* clearDependencies(target): this.#dependencies.delete(target) and
\* this.#subscribers.delete(target).  The second delete is keyed by the
\* target itself, i.e. it drops the reverse entry the target holds as a
\* context; reverse entries of other contexts that list the target stay.
clearDependencies(deps, rsubs, target) ==
    [deps |-> [deps EXCEPT ![target] = NoDeps],
     subs |-> [c \in Ctxs |-> IF c = target THEN NoSubs ELSE rsubs[c]]]

\* The edge (target, key, context) as the forward index sees it.
FwdEdge(deps, target, key, context) ==
    /\ deps[target].has
    /\ key \in deps[target].keys
    /\ context \in Range(deps[target].subs[key])

\* The edge (target, key, context) as the reverse index sees it.
RevEdge(rsubs, target, key, context) ==
    /\ rsubs[context].has
    /\ target \in rsubs[context].targets
    /\ key \in rsubs[context].keys[target]

\* ------------------------------------------------------------------ state

VARIABLES
    executionStack,   \* Tracker #executionStack: sequence of contexts, top last
    dependencies,     \* Tracker #dependencies: target -> key -> ordered Set of contexts
    subscribers,      \* Tracker #subscribers: context -> target -> Set of keys
    batchDepth,       \* Tracker #batchDepth
    pendingUpdates,   \* Tracker #pendingUpdates: insertion-ordered Set of update functions
    value,            \* Signal #value, per signal; Computed: the cached result
    sigSubscribers,   \* Signal #subscribers, per signal: ordered Set of callbacks
    effState,         \* Effect and derived Signal: "none" (not constructed),
                      \* "active", "disposed"; Computed: "dirty", "clean";
                      \* m1, the closure subscribeToMultiple returned: "none"
                      \* (not made), "active", "released" (it was called)
    cs,               \* the JavaScript call stack: sequence of frames, top last
    exc,              \* the exception being thrown, or "none"
    log,              \* events of the current top-level operation
    lastCall,         \* the most recent library call and its outcome
    preIdx,           \* both indices as they were when that call was entered
    thrown,           \* the exception the current top-level operation let escape
    steps             \* number of calls made by the open (user) code so far

trackerVars == <<executionStack, dependencies, subscribers, batchDepth, pendingUpdates>>

signalVars == <<value, sigSubscribers>>

vars == <<executionStack, dependencies, subscribers, batchDepth, pendingUpdates,
          value, sigSubscribers, effState, cs, exc, log, lastCall, preIdx, thrown, steps>>

\* ------------------------------------------------------------------ frames

\* The JavaScript value undefined: what a signal constructed with no usable
\* value holds, and what a function without a return statement returns.
Undefined == -1

\* A call-stack frame.  op names the function whose activation it is:
\*   main           the user's top-level program
\*   fn             a user function passed to withTracking or batchUpdates
\*   script         a user callback with a fixed body (update(), subscriber)
\*   withTracking   DependencyTracker.withTracking, waiting in its try block
\*   batchUpdates   DependencyTracker.batchUpdates, waiting in its try block
\*   flush          DependencyTracker.#flushUpdates, in its for loop
\*   trigger        DependencyTracker.trigger, in its second for loop
\*   sigUpdate      Signal.set value, inside this.update()
\*   invalidate     Computed.update(), after it marked itself dirty
\*   queueUpdate    DependencyTracker.queueUpdate, in its try block
\* ret is the value a frame holds for its caller: in withTracking and
\* batchUpdates the value `return fn()` has evaluated while the finally
\* block runs (carried by the flush that block calls); in user code the
\* value the last such call returned to it.
Frame(op, t, c, q, i, pend, body) ==
    [op |-> op, t |-> t, c |-> c, q |-> q, i |-> i, pend |-> pend, body |-> body,
     ret |-> Undefined]

MainFrame == Frame("main", "", "", <<>>, 0, NoExc, <<>>)

FnFrame == Frame("fn", "", "", <<>>, 0, NoExc, <<>>)

ScriptFrame(who, body) == Frame("script", "", who, <<>>, 1, NoExc, body)

Top == cs[Len(cs)]

Pop == SubSeq(cs, 1, Len(cs) - 1)

\* withTracking or batchUpdates returns r (return fn()): the user code that
\* made the call receives the value, kept in its frame as the result of the
\* last such call; library code that made the call (an update run by
\* trigger or by the flush) does not use it.
Return(stack, r) ==
    IF stack[Len(stack)].op \in {"main", "fn", "script"}
    THEN [stack EXCEPT ![Len(stack)].ret = r]
    ELSE stack

\* One statement of a scripted callback.
Op(op, t, k, v) == [op |-> op, t |-> t, k |-> k, v |-> v]

\* update() of the plain contexts.
UpdateBody(c) ==
    IF c = "cu" THEN << Op("inc", "s1", "value", 0) >>
    ELSE IF c = "ct" THEN << Op("throw", "", "", 0) >>
    ELSE IF c = "cx" THEN << Op("cleanupContext", "cp", "", 0),
                             Op("withTracking", "cm", "", 0) >>
    ELSE << >>

\* The function cx passes to withTracking: () => tracker.track(s1, "value").
ReaderBody == << Op("track", "s1", "value", 0) >>

\* The function an Effect was constructed with.
EffectBody(e) ==
    IF e = "e1" THEN << Op("readlog", "s1", "value", 0) >>
    ELSE IF e = "e3" THEN << Op("readlogc", "k1", "value", 0) >>
    ELSE << Op("read", "s1", "value", 0), Op("inc", "s1", "value", 0) >>

\* The Effects whose function returns a cleanup callback.
HasCleanup(e) == e = "e1"

\* The function a Computed was constructed with: the signals it reads and
\* the result it returns.
ComputeReads(k) == "s1"

ComputeFn(k) == 2 * value[ComputeReads(k)]

\* The callbacks handed to Signal.subscribe.
CallbackBody(cb) ==
    IF cb = "cbWrite" THEN << Op("inc", "s1", "value", 0) >>
    ELSE IF cb = "cbThrow" THEN << Op("throw", "", "", 0) >>
    ELSE IF cb = "cbMax" THEN << Op("write", "s1", "value", MaxVal) >>
    ELSE IF cb = "cbDerive" THEN << Op("derive", "d1", "value", 0) >>
    ELSE IF cb = "cbDivide" THEN << Op("divide", "d1", "value", 0) >>
    ELSE << >>

\* Signal.derived(dependencies, computeFn) as the signal test calls it: the
\* dependencies [s1, s2] and the function (x, y) => x + y.
DerivedDeps == << "s1", "s2" >>

computeFn(x, y) == x + y

\* computeFn(...dependencies.map(dep => dep.peek()))
DerivedValue == computeFn(value[DerivedDeps[1]], value[DerivedDeps[2]])

\* The function of the derived signal in the error-handling test:
\* (aVal, bVal) => { if (bVal === 0) throw new Error(...); return aVal / bVal }.
\* The dependencies only take values whose quotient is a whole number.
divisionThrows(x, y) == y = 0

divisionFn(x, y) == x \div y

\* What the try block around the initial computation leaves in initialValue.
DivisionInitialValue ==
    IF divisionThrows(value[DerivedDeps[1]], value[DerivedDeps[2]]) THEN Undefined
    ELSE divisionFn(value[DerivedDeps[1]], value[DerivedDeps[2]])

\* The update functions handed to queueUpdate.
UpdateFnBody(f) ==
    IF f = "ut" THEN << Op("throw", "", "", 0) >>
    ELSE << >>

\* A log event: what happened, to whom, with which value (new, old).
Ev(ev, who, v, w) == [ev |-> ev, who |-> who, v |-> v, w |-> w]

\* A library call: its number in the run, function, target, key, context or
\* callback, value, outcome.
Call(op, t, k, c, v, res) ==
    [n |-> lastCall.n + 1, op |-> op, t |-> t, k |-> k, c |-> c, v |-> v, res |-> res]

NoIdx == [deps |-> [t \in Objs |-> NoDeps], subs |-> [c \in Ctxs |-> NoSubs]]

\* ------------------------------------------------------------------ library calls
\* Each Do* is one library call made by the frame on top of `b`, the call
\* stack with the caller's own position already advanced.  `lg` is the log
\* the call's events are appended to.  A Do* fixes every variable except
\* thrown and steps, which belong to the caller.

\* tracker.track(target, key)
DoTrack(b, lg, t, k) ==
    LET r == track(dependencies, subscribers, executionStack, t, k)
    IN  /\ dependencies' = r.deps
        /\ subscribers' = r.subs
        /\ cs' = b
        /\ log' = lg
        /\ lastCall' = Call("track", t, k, getCurrentContext(executionStack), 0, "")
        /\ preIdx' = NoIdx
        /\ UNCHANGED <<executionStack, batchDepth, pendingUpdates, signalVars, effState, exc>>

\* tracker.getDependencies(target), called by the program itself
DoGetDependencies(b, lg, t) ==
    /\ dependencies' = getDependencies(dependencies, t)
    /\ cs' = b
    /\ log' = lg
    /\ lastCall' = Call("getDependencies", t, "", "", 0, "")
    /\ preIdx' = NoIdx
    /\ UNCHANGED <<executionStack, subscribers, batchDepth, pendingUpdates,
                   signalVars, effState, exc>>

\* tracker.getSubscribers(context), called by the program itself
DoGetSubscribers(b, lg, c) ==
    /\ subscribers' = getSubscribers(subscribers, c)
    /\ cs' = b
    /\ log' = lg
    /\ lastCall' = Call("getSubscribers", "", "", c, 0, "")
    /\ preIdx' = NoIdx
    /\ UNCHANGED <<executionStack, dependencies, batchDepth, pendingUpdates,
                   signalVars, effState, exc>>

\* tracker.cleanupContext(context)
DoCleanupContext(b, lg, c) ==
    LET r == cleanupContext(dependencies, subscribers, c)
    IN  /\ dependencies' = r.deps
        /\ subscribers' = r.subs
        /\ cs' = b
        /\ log' = lg
        /\ lastCall' = Call("cleanupContext", "", "", c, 0, "")
        /\ preIdx' = [deps |-> dependencies, subs |-> subscribers]
        /\ UNCHANGED <<executionStack, batchDepth, pendingUpdates, signalVars, effState, exc>>

\* tracker.clearDependencies(target)
DoClearDependencies(b, lg, t) ==
    LET r == clearDependencies(dependencies, subscribers, t)
    IN  /\ dependencies' = r.deps
        /\ subscribers' = r.subs
        /\ cs' = b
        /\ log' = lg
        /\ lastCall' = Call("clearDependencies", t, "", "", 0, "")
        /\ preIdx' = [deps |-> dependencies, subs |-> subscribers]
        /\ UNCHANGED <<executionStack, batchDepth, pendingUpdates, signalVars, effState, exc>>

\* The update functions trigger collects: one fresh arrow function
\* () => subscriber.update() per subscriber, in the Set's order.
Closure(c) == [kind |-> "closure", c |-> c]

\* An update function of the caller: the same object each time it is named.
UpdateFn(f) == [kind |-> "fn", c |-> f]

\* Updates collected from the end of the Set to its beginning.
CollectUpdates_Reversed(subs) == [i \in DOMAIN subs |-> Closure(subs[Len(subs) + 1 - i])]

CollectUpdates(subs) == [i \in DOMAIN subs |-> Closure(subs[i])]

\* tracker.trigger(target, key), up to the point where its updates are
\* collected: returns when nothing subscribes, throws when the cycle guard
\* fires, and otherwise enters the loop that hands each update to queueUpdate.
DoTrigger(b, lg, t, k) ==
    LET d == dependencies[t]
        none == ~d.has \/ k \notin d.keys \/ Len(d.subs[k]) = 0
        cyc == ~none /\ detectCircularDependency(executionStack, t, k)
    IN  /\ none \/ cyc \/ Len(b) < MaxDepth
        /\ cs' = IF none \/ cyc THEN b
                 ELSE Append(b, Frame("trigger", t, "", CollectUpdates(d.subs[k]), 0, NoExc, <<>>))
        /\ exc' = IF cyc THEN Circular ELSE exc
        /\ log' = IF cyc THEN Append(lg, Ev("raise", t, 0, 0))
                  ELSE IF none THEN lg
                  ELSE lg \o [i \in DOMAIN d.subs[k] |-> Ev("notify", d.subs[k][i], 0, 0)]
        /\ lastCall' = Call("trigger", t, k, "", 0,
                            IF none THEN "noSubscribers" ELSE IF cyc THEN "raised" ELSE "notify")
        /\ preIdx' = NoIdx
        /\ UNCHANGED <<trackerVars, signalVars, effState>>

\* tracker.withTracking(fn, context): push the context and call fn.
DoWithTracking(b, lg, c, fn) ==
    /\ Len(b) + 1 < MaxDepth
    /\ executionStack' = Append(executionStack, c)
    /\ cs' = b \o << Frame("withTracking", "", c, <<>>, 0, NoExc, <<>>), fn >>
    /\ log' = Append(lg, Ev("withTracking", c, 0, 0))
    /\ lastCall' = Call("withTracking", "", "", c, 0, "")
    /\ preIdx' = NoIdx
    /\ UNCHANGED <<dependencies, subscribers, batchDepth, pendingUpdates, signalVars, effState, exc>>

\* tracker.batchUpdates(fn) / Signal.batch(fn): raise the depth and call fn.
DoBatchUpdates(b, lg, fn) ==
    /\ Len(b) + 1 < MaxDepth
    /\ batchDepth' = batchDepth + 1
    /\ cs' = b \o << Frame("batchUpdates", "", "", <<>>, 0, NoExc, <<>>), fn >>
    /\ log' = Append(lg, Ev("batch", "", 0, 0))
    /\ lastCall' = Call("batchUpdates", "", "", "", 0, "")
    /\ preIdx' = NoIdx
    /\ UNCHANGED <<executionStack, dependencies, subscribers, pendingUpdates, signalVars, effState, exc>>

\* The setter without its equality test: every write stores and notifies.
DoSetValue_NoGate(b, lg, s, v) ==
    /\ Len(b) < MaxDepth
    /\ value' = [value EXCEPT ![s] = v]
    /\ cs' = Append(b, Frame("sigUpdate", s, "", <<>>, 0, NoExc, <<>>))
    /\ log' = Append(lg, Ev("set", s, v, value[s]))
    /\ lastCall' = Call("setValue", s, "value", "", v, "changed")
    /\ preIdx' = NoIdx
    /\ UNCHANGED <<trackerVars, sigSubscribers, effState, exc>>

\* signal.value = v.  An identical value returns at once; otherwise the value
\* is stored and this.update() starts walking the direct subscribers.
DoSetValue(b, lg, s, v) ==
    LET same == value[s] = v
    IN  /\ same \/ Len(b) < MaxDepth
        /\ value' = IF same THEN value ELSE [value EXCEPT ![s] = v]
        /\ cs' = IF same THEN b
                 ELSE Append(b, Frame("sigUpdate", s, "", <<>>, 0, NoExc, <<>>))
        /\ log' = Append(lg, Ev("set", s, v, value[s]))
        /\ lastCall' = Call("setValue", s, "value", "", v, IF same THEN "same" ELSE "changed")
        /\ preIdx' = NoIdx
        /\ UNCHANGED <<trackerVars, sigSubscribers, effState, exc>>

\* signal.value read: track(this, 'value'), then the stored value.
DoGetValue(b, lg, s) ==
    LET r == track(dependencies, subscribers, executionStack, s, "value")
    IN  /\ dependencies' = r.deps
        /\ subscribers' = r.subs
        /\ cs' = b
        /\ log' = lg
        /\ lastCall' = Call("getValue", s, "value", getCurrentContext(executionStack), 0, "")
        /\ preIdx' = NoIdx
        /\ UNCHANGED <<executionStack, batchDepth, pendingUpdates, signalVars, effState, exc>>

\* A peek that reads through the tracked getter.
DoPeek_Tracks(b, lg, s) ==
    LET r == track(dependencies, subscribers, executionStack, s, "value")
    IN  /\ dependencies' = r.deps
        /\ subscribers' = r.subs
        /\ cs' = b
        /\ log' = lg
        /\ lastCall' = Call("peek", s, "value", getCurrentContext(executionStack), value[s], "")
        /\ preIdx' = [deps |-> dependencies, subs |-> subscribers]
        /\ UNCHANGED <<executionStack, batchDepth, pendingUpdates, signalVars, effState, exc>>

\* signal.peek(): the stored value, with no call to track.
DoPeek(b, lg, s) ==
    /\ cs' = b
    /\ log' = lg
    /\ lastCall' = Call("peek", s, "value", getCurrentContext(executionStack), value[s], "")
    /\ preIdx' = [deps |-> dependencies, subs |-> subscribers]
    /\ UNCHANGED <<trackerVars, signalVars, effState, exc>>

\* A subscriber list that takes the same callback once per call.
DoSubscribe_NoDedup(b, lg, s, cb) ==
    /\ sigSubscribers' = [sigSubscribers EXCEPT ![s] = Append(@, cb)]
    /\ cs' = b
    /\ log' = Append(lg, Ev("subscribe", cb, 0, 0))
    /\ lastCall' = Call("subscribe", s, "", cb, 0, "")
    /\ preIdx' = NoIdx
    /\ UNCHANGED <<trackerVars, value, effState, exc>>

\* signal.subscribe(callback)
DoSubscribe(b, lg, s, cb) ==
    /\ sigSubscribers' = [sigSubscribers EXCEPT ![s] = SetAdd(@, cb)]
    /\ cs' = b
    /\ log' = Append(lg, Ev("subscribe", cb, 0, 0))
    /\ lastCall' = Call("subscribe", s, "", cb, 0, "")
    /\ preIdx' = NoIdx
    /\ UNCHANGED <<trackerVars, value, effState, exc>>

\* A closure that empties the whole Set, as clearSubscribers does.
DoUnsubscribe_ClearAll(b, lg, s, cb) ==
    /\ sigSubscribers' = [sigSubscribers EXCEPT ![s] = << >>]
    /\ cs' = b
    /\ log' = Append(lg, Ev("unsubscribe", cb, 0, 0))
    /\ lastCall' = Call("unsubscribe", s, "", cb, 0,
                        IF cb \in Range(sigSubscribers[s]) THEN "true" ELSE "false")
    /\ preIdx' = NoIdx
    /\ UNCHANGED <<trackerVars, value, effState, exc>>

\* The closure subscribe returned, called: this.#subscribers.delete(callback).
DoUnsubscribe(b, lg, s, cb) ==
    /\ sigSubscribers' = [sigSubscribers EXCEPT ![s] = SetDelete(@, cb)]
    /\ cs' = b
    /\ log' = Append(lg, Ev("unsubscribe", cb, 0, 0))
    /\ lastCall' = Call("unsubscribe", s, "", cb, 0,
                        IF cb \in Range(sigSubscribers[s]) THEN "true" ELSE "false")
    /\ preIdx' = NoIdx
    /\ UNCHANGED <<trackerVars, value, effState, exc>>

\* An array item that is not a Signal instance.
NotASignal == "not-a-signal"

\* The array the program passes to subscribeToMultiple with the logging
\* callback, and the arrays with an invalid item it may pass (with the
\* callback that does nothing).
MultiSignals == << "s1", "s2" >>

InvalidArrays == { << "s1", NotASignal >>, << NotASignal, "s1" >>, << "s1", "s2", NotASignal >> }

\* The items signals.map has handed to signal.subscribe when it ends: all
\* of them, or those before the first item that is not a Signal.
MappedItems(arr) ==
    LET bad == {i \in DOMAIN arr : arr[i] \notin Sigs}
    IN  IF bad = {} THEN Len(arr)
        ELSE (CHOOSE i \in bad : \A j \in bad : i <= j) - 1

\* A subscribeToMultiple that subscribes to the first signal only.
DoSubscribeToMultiple_FirstOnly(b, lg, arr, cb) ==
    LET n == MappedItems(arr)
        ok == n = Len(arr)
    IN  /\ sigSubscribers' = [s \in Sigs |->
                                 IF n >= 1 /\ arr[1] = s
                                 THEN SetAdd(sigSubscribers[s], cb) ELSE sigSubscribers[s]]
        /\ exc' = IF ok THEN exc ELSE UserError
        /\ effState' = IF ok THEN [effState EXCEPT !["m1"] = "active"] ELSE effState
        /\ cs' = b
        /\ log' = Append(lg, Ev("subscribeToMultiple", cb, n, 0))
        /\ lastCall' = Call("subscribeToMultiple", "", "", cb, n, IF ok THEN "" ELSE "raised")
        /\ preIdx' = NoIdx
        /\ UNCHANGED <<trackerVars, value>>

\* Signal.subscribeToMultiple(signals, callback): signals.map checks and
\* subscribes item by item, so the throw for an invalid item comes after
\* the items before it were subscribed; on success the closure that calls
\* every returned unsubscribe function is handed to the caller.
DoSubscribeToMultiple(b, lg, arr, cb) ==
    LET n == MappedItems(arr)
        ok == n = Len(arr)
    IN  /\ sigSubscribers' = [s \in Sigs |->
                                 IF \E i \in 1 .. n : arr[i] = s
                                 THEN SetAdd(sigSubscribers[s], cb) ELSE sigSubscribers[s]]
        /\ exc' = IF ok THEN exc ELSE UserError
        /\ effState' = IF ok THEN [effState EXCEPT !["m1"] = "active"] ELSE effState
        /\ cs' = b
        /\ log' = Append(lg, Ev("subscribeToMultiple", cb, n, 0))
        /\ lastCall' = Call("subscribeToMultiple", "", "", cb, n, IF ok THEN "" ELSE "raised")
        /\ preIdx' = NoIdx
        /\ UNCHANGED <<trackerVars, value>>

\* The closure subscribeToMultiple returned, called:
\* unsubscribeFunctions.forEach(unsub => unsub()).
DoUnsubscribeMultiple(b, lg, arr, cb) ==
    /\ effState["m1"] # "none"
    /\ effState' = [effState EXCEPT !["m1"] = "released"]
    /\ sigSubscribers' = [s \in Sigs |->
                             IF s \in Range(arr)
                             THEN SetDelete(sigSubscribers[s], cb) ELSE sigSubscribers[s]]
    /\ cs' = b
    /\ log' = Append(lg, Ev("unsubscribeMultiple", cb, 0, 0))
    /\ lastCall' = Call("unsubscribeMultiple", "", "", cb, 0, "")
    /\ preIdx' = NoIdx
    /\ UNCHANGED <<trackerVars, value, exc>>

\* A clearSubscribers that also drops the signal's graph edges, as dispose does.
DoClearSubscribers_ClearsGraph(b, lg, s) ==
    LET r == clearDependencies(dependencies, subscribers, s)
    IN  /\ sigSubscribers' = [sigSubscribers EXCEPT ![s] = << >>]
        /\ dependencies' = r.deps
        /\ subscribers' = r.subs
        /\ cs' = b
        /\ log' = Append(lg, Ev("clearSubscribers", s, 0, 0))
        /\ lastCall' = Call("clearSubscribers", s, "", "", 0, "")
        /\ preIdx' = [deps |-> dependencies, subs |-> subscribers]
        /\ UNCHANGED <<executionStack, batchDepth, pendingUpdates, value, effState, exc>>

\* signal.clearSubscribers(): this.#subscribers.clear().
DoClearSubscribers(b, lg, s) ==
    /\ sigSubscribers' = [sigSubscribers EXCEPT ![s] = << >>]
    /\ cs' = b
    /\ log' = Append(lg, Ev("clearSubscribers", s, 0, 0))
    /\ lastCall' = Call("clearSubscribers", s, "", "", 0, "")
    /\ preIdx' = [deps |-> dependencies, subs |-> subscribers]
    /\ UNCHANGED <<trackerVars, value, effState, exc>>

\* A dispose that clears the direct subscribers and leaves the Tracker alone.
DoDispose_KeepsGraph(b, lg, s) ==
    /\ sigSubscribers' = [sigSubscribers EXCEPT ![s] = << >>]
    /\ cs' = b
    /\ log' = Append(lg, Ev("dispose", s, 0, 0))
    /\ lastCall' = Call("dispose", s, "", "", 0, "")
    /\ preIdx' = [deps |-> dependencies, subs |-> subscribers]
    /\ UNCHANGED <<trackerVars, value, effState, exc>>

\* signal.dispose(): this.#subscribers.clear(), then
\* globalTracker.clearDependencies(this).
DoDispose(b, lg, s) ==
    LET r == clearDependencies(dependencies, subscribers, s)
    IN  /\ sigSubscribers' = [sigSubscribers EXCEPT ![s] = << >>]
        /\ dependencies' = r.deps
        /\ subscribers' = r.subs
        /\ cs' = b
        /\ log' = Append(lg, Ev("dispose", s, 0, 0))
        /\ lastCall' = Call("dispose", s, "", "", 0, "")
        /\ preIdx' = [deps |-> dependencies, subs |-> subscribers]
        /\ UNCHANGED <<executionStack, batchDepth, pendingUpdates, value, effState, exc>>

\* A derived that starts from the initial value of a plain signal and is
\* computed only when a dependency changes.
DoDerived_NoInitialValue(b, lg) ==
    /\ effState["d1"] = "none"
    /\ effState' = [effState EXCEPT !["d1"] = "active"]
    /\ value' = [value EXCEPT !["d1"] = 0]
    /\ sigSubscribers' = [s \in Sigs |->
                             IF s \in Range(DerivedDeps)
                             THEN Append(sigSubscribers[s], "cbDerive")
                             ELSE IF s = "d1" THEN << >>
                             ELSE sigSubscribers[s]]
    /\ cs' = b
    /\ log' = Append(lg, Ev("derived", "d1", DerivedValue, 0))
    /\ lastCall' = Call("derived", "d1", "", "", DerivedValue, "")
    /\ preIdx' = NoIdx
    /\ UNCHANGED <<trackerVars, exc>>

\* Signal.derived(dependencies, computeFn): a new Signal, with no
\* subscriber of its own, holding computeFn of the peeked dependency
\* values, and one new callback subscribed to each dependency that
\* recomputes and writes it.
DoDerived(b, lg) ==
    /\ effState["d1"] = "none"
    /\ effState' = [effState EXCEPT !["d1"] = "active"]
    /\ value' = [value EXCEPT !["d1"] = DerivedValue]
    /\ sigSubscribers' = [s \in Sigs |->
                             IF s \in Range(DerivedDeps)
                             THEN Append(sigSubscribers[s], "cbDerive")
                             ELSE IF s = "d1" THEN << >>
                             ELSE sigSubscribers[s]]
    /\ cs' = b
    /\ log' = Append(lg, Ev("derived", "d1", DerivedValue, 0))
    /\ lastCall' = Call("derived", "d1", "", "", DerivedValue, "")
    /\ preIdx' = NoIdx
    /\ UNCHANGED <<trackerVars, exc>>

\* Signal.derived([s1, s2], division): as DoDerived; a failure of the
\* initial computation is caught and the signal starts as undefined.
DoDerivedDivision(b, lg) ==
    /\ effState["d1"] = "none"
    /\ effState' = [effState EXCEPT !["d1"] = "active"]
    /\ value' = [value EXCEPT !["d1"] = DivisionInitialValue]
    /\ sigSubscribers' = [s \in Sigs |->
                             IF s \in Range(DerivedDeps)
                             THEN Append(sigSubscribers[s], "cbDivide")
                             ELSE IF s = "d1" THEN << >>
                             ELSE sigSubscribers[s]]
    /\ cs' = b
    /\ log' = Append(lg, Ev("derived", "d1", DivisionInitialValue, 0))
    /\ lastCall' = Call("derived", "d1", "", "", DivisionInitialValue, "division")
    /\ preIdx' = NoIdx
    /\ UNCHANGED <<trackerVars, exc>>

\* A recomputation whose catch block stores undefined, as the catch block
\* of the initial computation does.
DoRecomputeDivision_ResetsOnError(b, lg) ==
    IF divisionThrows(value[DerivedDeps[1]], value[DerivedDeps[2]])
    THEN /\ value' = [value EXCEPT !["d1"] = Undefined]
         /\ cs' = b
         /\ log' = Append(lg, Ev("throw", "cbDivide", value["d1"], 0))
         /\ UNCHANGED <<trackerVars, sigSubscribers, effState, exc, lastCall, preIdx>>
    ELSE DoSetValue(b, lg, "d1", divisionFn(value[DerivedDeps[1]], value[DerivedDeps[2]]))

\* The callback derived() subscribed to a dependency, called: computeFn of
\* the peeked values is written to the derived signal; a failure of
\* computeFn is caught inside the callback and logged, and nothing is
\* written.  The throw event records the value the derived signal holds.
DoRecomputeDivision(b, lg) ==
    IF divisionThrows(value[DerivedDeps[1]], value[DerivedDeps[2]])
    THEN /\ cs' = b
         /\ log' = Append(lg, Ev("throw", "cbDivide", value["d1"], 0))
         /\ UNCHANGED <<trackerVars, signalVars, effState, exc, lastCall, preIdx>>
    ELSE DoSetValue(b, lg, "d1", divisionFn(value[DerivedDeps[1]], value[DerivedDeps[2]]))

\* A derived signal left with the dispose of a plain signal: its own
\* subscribers and edges go, its callbacks stay on the dependencies.
DoDisposeDerived_OriginalOnly(b, lg) ==
    LET r == clearDependencies(dependencies, subscribers, "d1")
    IN  /\ effState["d1"] # "none"
        /\ effState' = [effState EXCEPT !["d1"] = "disposed"]
        /\ sigSubscribers' = [sigSubscribers EXCEPT !["d1"] = << >>]
        /\ dependencies' = r.deps
        /\ subscribers' = r.subs
        /\ cs' = b
        /\ log' = Append(lg, Ev("dispose", "d1", 0, 0))
        /\ lastCall' = Call("dispose", "d1", "", "", 0, "derived")
        /\ preIdx' = [deps |-> dependencies, subs |-> subscribers]
        /\ UNCHANGED <<executionStack, batchDepth, pendingUpdates, value, exc>>

\* The dispose of a derived signal: the closures returned by the subscribe
\* calls are called, then the original dispose.
DoDisposeDerived(b, lg) ==
    LET r == clearDependencies(dependencies, subscribers, "d1")
    IN  /\ effState["d1"] # "none"
        /\ effState' = [effState EXCEPT !["d1"] = "disposed"]
        /\ sigSubscribers' = [s \in Sigs |->
                                 IF s = "d1" THEN << >>
                                 ELSE IF s \in Range(DerivedDeps)
                                 THEN SetDelete(SetDelete(sigSubscribers[s], "cbDerive"), "cbDivide")
                                 ELSE sigSubscribers[s]]
        /\ dependencies' = r.deps
        /\ subscribers' = r.subs
        /\ cs' = b
        /\ log' = Append(lg, Ev("dispose", "d1", 0, 0))
        /\ lastCall' = Call("dispose", "d1", "", "", 0, "derived")
        /\ preIdx' = [deps |-> dependencies, subs |-> subscribers]
        /\ UNCHANGED <<executionStack, batchDepth, pendingUpdates, value, exc>>

\* The run of an Effect: drop the edges of the previous run, then run the
\* body under withTracking(body, this).
DoRunEffect(b, lg, e, call) ==
    LET r == cleanupContext(dependencies, subscribers, e)
    IN  /\ Len(b) + 1 < MaxDepth
        /\ dependencies' = r.deps
        /\ subscribers' = r.subs
        /\ executionStack' = Append(executionStack, e)
        /\ effState' = [effState EXCEPT ![e] = "active"]
        /\ cs' = b \o << Frame("withTracking", "", e, <<>>, 0, NoExc, <<>>),
                         ScriptFrame(e, EffectBody(e)) >>
        /\ log' = Append(lg, Ev("run", e, 0, 0))
        /\ lastCall' = call
        /\ preIdx' = NoIdx
        /\ UNCHANGED <<batchDepth, pendingUpdates, signalVars, exc>>

\* effect(fn): construction runs the effect at once.
DoNewEffect(b, lg, e) ==
    /\ effState[e] = "none"
    /\ DoRunEffect(b, Append(lg, Ev("effect", e, 0, 0)), e, Call("effect", "", "", e, 0, ""))

\* effect.dispose(): active = false, the pending cleanup is invoked, and
\* the Tracker removes the edges the Effect holds as subscriber.
DoDisposeEffect(b, lg, e) ==
    LET r == cleanupContext(dependencies, subscribers, e)
    IN  /\ effState[e] # "none"
        /\ effState' = [effState EXCEPT ![e] = "disposed"]
        /\ dependencies' = r.deps
        /\ subscribers' = r.subs
        /\ cs' = b
        /\ log' = Append(lg, Ev("disposeEffect", e, 0, 0)) \o
                      (IF HasCleanup(e) /\ effState[e] = "active"
                       THEN << Ev("cleanupFn", e, 0, 0) >> ELSE << >>)
        /\ lastCall' = Call("disposeEffect", "", "", e, 0, "")
        /\ preIdx' = [deps |-> dependencies, subs |-> subscribers]
        /\ UNCHANGED <<executionStack, batchDepth, pendingUpdates, signalVars, exc>>

\* computed.value read: track(this, 'value') for the reader; a clean
\* Computed returns its cache, a dirty one drops its old edges, runs its
\* function under withTracking(fn, this), which reads its signal, caches the
\* result and is clean.  The function only reads, so the whole read is one step.
DoGetComputed(b, lg, k) ==
    LET r1 == track(dependencies, subscribers, executionStack, k, "value")
        r2 == cleanupContext(r1.deps, r1.subs, k)
        r3 == track(r2.deps, r2.subs, Append(executionStack, k), ComputeReads(k), "value")
        dirty == effState[k] = "dirty"
        res == IF dirty THEN ComputeFn(k) ELSE value[k]
    IN  /\ dependencies' = IF dirty THEN r3.deps ELSE r1.deps
        /\ subscribers' = IF dirty THEN r3.subs ELSE r1.subs
        /\ value' = [value EXCEPT ![k] = res]
        /\ effState' = [effState EXCEPT ![k] = "clean"]
        /\ cs' = b
        /\ log' = Append(lg, Ev("read", getCurrentContext(executionStack), res, 0))
        /\ lastCall' = Call("getComputed", k, "value", getCurrentContext(executionStack), res,
                            IF dirty THEN "computed" ELSE "cached")
        /\ preIdx' = NoIdx
        /\ UNCHANGED <<executionStack, batchDepth, pendingUpdates, sigSubscribers, exc>>

\* subscriber.update(), the call each collected arrow function makes.
\* A plain context runs its own update(); an Effect that is still active
\* invokes the cleanup of its previous run and runs again, a disposed one
\* returns at once; a Computed marks itself dirty and notifies its own
\* subscribers.
DoUpdate(b, lg, c) ==
    IF c \in Computeds
    THEN /\ Len(b) < MaxDepth
         /\ effState' = [effState EXCEPT ![c] = "dirty"]
         /\ cs' = Append(b, Frame("invalidate", c, "", <<>>, 0, NoExc, <<>>))
         /\ log' = Append(lg, Ev("update", c, 0, 0))
         /\ lastCall' = Call("update", "", "", c, 0, "")
         /\ preIdx' = NoIdx
         /\ UNCHANGED <<trackerVars, signalVars, exc>>
    ELSE IF c \in Effects
    THEN IF effState[c] = "active"
         THEN DoRunEffect(b, Append(lg, Ev("update", c, 0, 0)) \o
                                 (IF HasCleanup(c) THEN << Ev("cleanupFn", c, 0, 0) >> ELSE << >>),
                          c, Call("update", "", "", c, 0, ""))
         ELSE /\ cs' = b
              /\ log' = Append(lg, Ev("update", c, 0, 0))
              /\ lastCall' = Call("update", "", "", c, 0, "inactive")
              /\ preIdx' = NoIdx
              /\ UNCHANGED <<trackerVars, signalVars, effState, exc>>
    ELSE /\ Len(b) < MaxDepth
         /\ cs' = Append(b, ScriptFrame(c, UpdateBody(c)))
         /\ log' = Append(lg, Ev("update", c, 0, 0))
         /\ lastCall' = Call("update", "", "", c, 0, "")
         /\ preIdx' = NoIdx
         /\ UNCHANGED <<trackerVars, signalVars, effState, exc>>

\* update(): the call of one queued or collected update function.
DoRunUpdate(b, lg, u) ==
    IF u.kind = "closure"
    THEN DoUpdate(b, lg, u.c)
    ELSE /\ Len(b) < MaxDepth
         /\ cs' = Append(b, ScriptFrame(u.c, UpdateFnBody(u.c)))
         /\ log' = Append(lg, Ev("call", u.c, 0, 0))
         /\ lastCall' = Call("updateFn", "", "", u.c, 0, "")
         /\ preIdx' = NoIdx
         /\ UNCHANGED <<trackerVars, signalVars, effState, exc>>

\* ------------------------------------------------------------------ library steps
\* The continuation of a library function once the user code it called has
\* returned or thrown.  These are the only steps enabled while a library
\* frame is on top, so each handler runs to its end.

\* A step that only moves the call stack and the exception.
Resume(ncs, nexc) ==
    /\ cs' = ncs
    /\ exc' = nexc
    /\ UNCHANGED <<trackerVars, signalVars, effState, log, lastCall, preIdx, thrown, steps>>

\* A pending collection that puts the newest update first.
pendingAdd_Prepend(pending, u) == IF u \in Range(pending) THEN pending ELSE << u >> \o pending

\* A pending collection that is a plain list: no deduplication.
pendingAdd_NoDedup(pending, u) == Append(pending, u)

\* Set.prototype.add on #pendingUpdates.  Every arrow function trigger makes
\* is a new object, so it is never found in the Set; a function the caller
\* passes to queueUpdate itself is found if it was queued before.
pendingAdd(pending, u) == IF u.kind = "closure" THEN Append(pending, u) ELSE SetAdd(pending, u)

\* A queueUpdate that defers every update, batch or not.
DoQueueUpdate_AlwaysQueues(b, lg, f) ==
    /\ pendingUpdates' = pendingAdd(pendingUpdates, UpdateFn(f))
    /\ cs' = b
    /\ log' = Append(lg, Ev("queue", f, 0, 0))
    /\ lastCall' = Call("queueUpdate", "", "", f, 0, "queued")
    /\ preIdx' = NoIdx
    /\ UNCHANGED <<executionStack, dependencies, subscribers, batchDepth,
                   signalVars, effState, exc>>

\* tracker.queueUpdate(updateFn), called by user code: inside a batch the
\* function is added to the pending Set, otherwise it runs now in a try block.
DoQueueUpdate(b, lg, f) ==
    IF batchDepth > 0
    THEN /\ pendingUpdates' = pendingAdd(pendingUpdates, UpdateFn(f))
         /\ cs' = b
         /\ log' = Append(lg, Ev("queue", f, 0, 0))
         /\ lastCall' = Call("queueUpdate", "", "", f, 0, "queued")
         /\ preIdx' = NoIdx
         /\ UNCHANGED <<executionStack, dependencies, subscribers, batchDepth,
                        signalVars, effState, exc>>
    ELSE /\ Len(b) + 1 < MaxDepth
         /\ cs' = b \o << Frame("queueUpdate", "", f, <<>>, 0, NoExc, <<>>),
                          ScriptFrame(f, UpdateFnBody(f)) >>
         /\ log' = Append(lg, Ev("call", f, 0, 0))
         /\ lastCall' = Call("queueUpdate", "", "", f, 0, "ran")
         /\ preIdx' = NoIdx
         /\ UNCHANGED <<trackerVars, signalVars, effState, exc>>

\* queueUpdate returns once the update it ran at once is done.
StepQueueUpdate ==
    /\ Top.op = "queueUpdate"
    /\ exc = NoExc
    /\ Resume(Pop, NoExc)

\* A withTracking without try/finally: the pop is skipped when fn throws.
StepWithTracking_NoFinally ==
    /\ cs[Len(cs)].op = "withTracking"
    /\ executionStack' = IF exc = NoExc
                         THEN SubSeq(executionStack, 1, Len(executionStack) - 1)
                         ELSE executionStack
    /\ cs' = IF exc = NoExc /\ cs[Len(cs)].c \in PlainCtxs
             THEN Return(SubSeq(cs, 1, Len(cs) - 1), cs[Len(cs)].ret)
             ELSE SubSeq(cs, 1, Len(cs) - 1)
    /\ UNCHANGED <<dependencies, subscribers, batchDepth, pendingUpdates, signalVars,
                   effState, exc, log, lastCall, preIdx, thrown, steps>>

\* withTracking's finally block: pop the execution stack; the result or the
\* failure of fn passes through.
StepWithTracking ==
    /\ Top.op = "withTracking"
    /\ executionStack' = SubSeq(executionStack, 1, Len(executionStack) - 1)
    /\ cs' = IF exc = NoExc /\ Top.c \in PlainCtxs THEN Return(Pop, Top.ret) ELSE Pop
    /\ UNCHANGED <<dependencies, subscribers, batchDepth, pendingUpdates, signalVars,
                   effState, exc, log, lastCall, preIdx, thrown, steps>>

\* A finally block that flushes at the exit of every batch, nested or not.
StepBatchExit_FlushAlways ==
    /\ cs[Len(cs)].op = "batchUpdates"
    /\ batchDepth' = batchDepth - 1
    /\ IF Len(pendingUpdates) > 0
       THEN /\ cs' = Append(SubSeq(cs, 1, Len(cs) - 1),
                            [Frame("flush", "", "", pendingUpdates, 0, exc, <<>>)
                                EXCEPT !.ret = cs[Len(cs)].ret])
            /\ pendingUpdates' = <<>>
            /\ exc' = NoExc
       ELSE /\ cs' = IF exc = NoExc
                     THEN Return(SubSeq(cs, 1, Len(cs) - 1), cs[Len(cs)].ret)
                     ELSE SubSeq(cs, 1, Len(cs) - 1)
            /\ UNCHANGED <<pendingUpdates, exc>>
    /\ UNCHANGED <<executionStack, dependencies, subscribers, signalVars, effState,
                   log, lastCall, preIdx, thrown, steps>>

\* A batchUpdates with a catch-free try and no finally: when fn throws, the
\* depth is left raised and nothing is flushed.
StepBatchExit_NoFinally ==
    /\ cs[Len(cs)].op = "batchUpdates"
    /\ IF exc # NoExc
       THEN /\ cs' = SubSeq(cs, 1, Len(cs) - 1)
            /\ UNCHANGED <<batchDepth, pendingUpdates, exc>>
       ELSE /\ batchDepth' = batchDepth - 1
            /\ IF batchDepth - 1 = 0 /\ Len(pendingUpdates) > 0
               THEN /\ cs' = Append(SubSeq(cs, 1, Len(cs) - 1),
                                    [Frame("flush", "", "", pendingUpdates, 0, exc, <<>>)
                                        EXCEPT !.ret = cs[Len(cs)].ret])
                    /\ pendingUpdates' = <<>>
                    /\ exc' = NoExc
               ELSE /\ cs' = Return(SubSeq(cs, 1, Len(cs) - 1), cs[Len(cs)].ret)
                    /\ UNCHANGED <<pendingUpdates, exc>>
    /\ UNCHANGED <<executionStack, dependencies, subscribers, signalVars, effState,
                   log, lastCall, preIdx, thrown, steps>>

\* A batchUpdates that calls fn without returning its result: the caller
\* receives undefined whatever fn returned.
StepBatchExit_DropsResult ==
    /\ cs[Len(cs)].op = "batchUpdates"
    /\ batchDepth' = batchDepth - 1
    /\ IF batchDepth - 1 = 0 /\ Len(pendingUpdates) > 0
       THEN /\ cs' = Append(SubSeq(cs, 1, Len(cs) - 1),
                            Frame("flush", "", "", pendingUpdates, 0, exc, <<>>))
            /\ pendingUpdates' = <<>>
            /\ exc' = NoExc
       ELSE /\ cs' = IF exc = NoExc
                     THEN Return(SubSeq(cs, 1, Len(cs) - 1), Undefined)
                     ELSE SubSeq(cs, 1, Len(cs) - 1)
            /\ UNCHANGED <<pendingUpdates, exc>>
    /\ UNCHANGED <<executionStack, dependencies, subscribers, signalVars, effState,
                   log, lastCall, preIdx, thrown, steps>>

\* batchUpdates' finally block: lower the depth; at depth zero #flushUpdates
\* copies the pending Set to an array, clears it and starts running the
\* copies.  A failure of fn stays pending until the finally block is done,
\* and so does its result (return fn()), which the caller receives after
\* the flush.
StepBatchExit ==
    /\ Top.op = "batchUpdates"
    /\ batchDepth' = batchDepth - 1
    /\ IF batchDepth - 1 = 0 /\ Len(pendingUpdates) > 0
       THEN /\ cs' = Append(Pop, [Frame("flush", "", "", pendingUpdates, 0, exc, <<>>)
                                     EXCEPT !.ret = Top.ret])
            /\ pendingUpdates' = <<>>
            /\ exc' = NoExc
       ELSE /\ cs' = IF exc = NoExc THEN Return(Pop, Top.ret) ELSE Pop
            /\ UNCHANGED <<pendingUpdates, exc>>
    /\ UNCHANGED <<executionStack, dependencies, subscribers, signalVars, effState,
                   log, lastCall, preIdx, thrown, steps>>

\* #flushUpdates' loop: run the next update, or finish and let the failure
\* of the batched function continue.
StepFlush ==
    /\ Top.op = "flush"
    /\ exc = NoExc
    /\ IF Len(Top.q) = 0
       THEN Resume(IF Top.pend = NoExc THEN Return(Pop, Top.ret) ELSE Pop, Top.pend)
       ELSE /\ DoRunUpdate(Append(Pop, [Top EXCEPT !.q = Tail(@)]), log, Head(Top.q))
            /\ UNCHANGED <<thrown, steps>>

\* A trigger whose updates are put aside whether a batch is open or not.
StepTrigger_AlwaysQueues ==
    /\ cs[Len(cs)].op = "trigger"
    /\ exc = NoExc
    /\ IF Len(cs[Len(cs)].q) = 0
       THEN Resume(SubSeq(cs, 1, Len(cs) - 1), NoExc)
       ELSE /\ pendingUpdates' = pendingAdd(pendingUpdates, Head(cs[Len(cs)].q))
            /\ cs' = [cs EXCEPT ![Len(cs)].q = Tail(@)]
            /\ log' = Append(log, Ev("queue", Head(cs[Len(cs)].q).c, 0, 0))
            /\ UNCHANGED <<executionStack, dependencies, subscribers, batchDepth,
                           signalVars, effState, exc, lastCall, preIdx, thrown, steps>>

\* A trigger that looks at the subscriber Set again before each update and
\* leaves out a context that is no longer in it.
StepTrigger_ReadsLiveSet ==
    /\ cs[Len(cs)].op = "trigger"
    /\ exc = NoExc
    /\ IF Len(cs[Len(cs)].q) = 0
       THEN Resume(SubSeq(cs, 1, Len(cs) - 1), NoExc)
       ELSE LET rest == Append(SubSeq(cs, 1, Len(cs) - 1),
                               [cs[Len(cs)] EXCEPT !.q = Tail(@)])
                c == Head(cs[Len(cs)].q).c
            IN  IF ~(\E k \in Keys : FwdEdge(dependencies, cs[Len(cs)].t, k, c))
                THEN /\ cs' = rest
                     /\ UNCHANGED <<trackerVars, signalVars, effState, exc, log,
                                    lastCall, preIdx, thrown, steps>>
                ELSE IF batchDepth > 0
                THEN /\ pendingUpdates' = pendingAdd(pendingUpdates, Head(cs[Len(cs)].q))
                     /\ cs' = rest
                     /\ log' = Append(log, Ev("queue", c, 0, 0))
                     /\ UNCHANGED <<executionStack, dependencies, subscribers, batchDepth,
                                    signalVars, effState, exc, lastCall, preIdx,
                                    thrown, steps>>
                ELSE /\ DoUpdate(rest, log, c)
                     /\ UNCHANGED <<thrown, steps>>

\* trigger's loop over the collected updates, with queueUpdate inlined:
\* inside a batch the update is added to the pending Set, otherwise it runs now.
StepTrigger ==
    /\ Top.op = "trigger"
    /\ exc = NoExc
    /\ IF Len(Top.q) = 0
       THEN Resume(Pop, NoExc)
       ELSE LET rest == Append(Pop, [Top EXCEPT !.q = Tail(@)])
            IN  IF batchDepth > 0
                THEN /\ pendingUpdates' = pendingAdd(pendingUpdates, Head(Top.q))
                     /\ cs' = rest
                     /\ log' = Append(log, Ev("queue", Head(Top.q).c, 0, 0))
                     /\ UNCHANGED <<executionStack, dependencies, subscribers, batchDepth,
                                    signalVars, effState, exc, lastCall, preIdx,
                                    thrown, steps>>
                ELSE /\ DoUpdate(rest, log, Head(Top.q).c)
                     /\ UNCHANGED <<thrown, steps>>

\* A setter that leaves out the direct subscribers while a batch is open.
StepSigUpdate_SkipInBatch ==
    /\ cs[Len(cs)].op = "sigUpdate"
    /\ exc = NoExc
    /\ IF cs[Len(cs)].i < Len(sigSubscribers[cs[Len(cs)].t]) /\ batchDepth = 0
       THEN LET cb == sigSubscribers[cs[Len(cs)].t][cs[Len(cs)].i + 1]
            IN  /\ Len(cs) < MaxDepth
                /\ cs' = Append(Append(SubSeq(cs, 1, Len(cs) - 1),
                                        [cs[Len(cs)] EXCEPT !.i = @ + 1]),
                                 ScriptFrame(cb, CallbackBody(cb)))
                /\ log' = Append(log, Ev("callback", cb, value[cs[Len(cs)].t], 0))
                /\ lastCall' = Call("callback", cs[Len(cs)].t, "", cb, value[cs[Len(cs)].t], "")
                /\ preIdx' = NoIdx
                /\ UNCHANGED <<trackerVars, signalVars, effState, exc, thrown, steps>>
       ELSE /\ DoTrigger(SubSeq(cs, 1, Len(cs) - 1), log, cs[Len(cs)].t, "value")
            /\ UNCHANGED <<thrown, steps>>

\* Computed.update() after marking dirty: trigger(this, 'value').
StepInvalidate ==
    /\ Top.op = "invalidate"
    /\ exc = NoExc
    /\ DoTrigger(Pop, log, Top.t, "value")
    /\ UNCHANGED <<thrown, steps>>

\* An update() with a re-entrancy guard: while the same signal is already
\* notifying its subscribers, a nested update() calls nobody.
StepSigUpdate_SkipsNested ==
    /\ cs[Len(cs)].op = "sigUpdate"
    /\ exc = NoExc
    /\ IF /\ cs[Len(cs)].i < Len(sigSubscribers[cs[Len(cs)].t])
          /\ ~(\E j \in 1 .. (Len(cs) - 1) :
                    cs[j].op = "sigUpdate" /\ cs[j].t = cs[Len(cs)].t)
       THEN LET cb == sigSubscribers[cs[Len(cs)].t][cs[Len(cs)].i + 1]
            IN  /\ Len(cs) < MaxDepth
                /\ cs' = Append(Append(SubSeq(cs, 1, Len(cs) - 1),
                                        [cs[Len(cs)] EXCEPT !.i = @ + 1]),
                                 ScriptFrame(cb, CallbackBody(cb)))
                /\ log' = Append(log, Ev("callback", cb, value[cs[Len(cs)].t], 0))
                /\ lastCall' = Call("callback", cs[Len(cs)].t, "", cb, value[cs[Len(cs)].t], "")
                /\ preIdx' = NoIdx
                /\ UNCHANGED <<trackerVars, signalVars, effState, exc, thrown, steps>>
       ELSE /\ DoTrigger(SubSeq(cs, 1, Len(cs) - 1), log, cs[Len(cs)].t, "value")
            /\ UNCHANGED <<thrown, steps>>

\* Signal.set value after the store: this.update() calls each direct
\* subscriber with the stored value, then trigger(this, 'value') runs.
StepSigUpdate ==
    /\ Top.op = "sigUpdate"
    /\ exc = NoExc
    /\ IF Top.i < Len(sigSubscribers[Top.t])
       THEN LET cb == sigSubscribers[Top.t][Top.i + 1]
            IN  /\ Len(cs) < MaxDepth
                /\ cs' = Append(Append(Pop, [Top EXCEPT !.i = @ + 1]),
                                ScriptFrame(cb, CallbackBody(cb)))
                /\ log' = Append(log, Ev("callback", cb, value[Top.t], 0))
                /\ lastCall' = Call("callback", Top.t, "", cb, value[Top.t], "")
                /\ preIdx' = NoIdx
                /\ UNCHANGED <<trackerVars, signalVars, effState, exc, thrown, steps>>
       ELSE /\ DoTrigger(Pop, log, Top.t, "value")
            /\ UNCHANGED <<thrown, steps>>

\* The catch blocks: queueUpdate (around an update run at once),
\* #flushUpdates (around each flushed update) and Signal.update (around each
\* direct subscriber) log the error with console.error and go on.
\* A catch block placed around the whole loop instead of around each update:
\* the first failure ends the loop.
Swallow_AbortLoop ==
    /\ exc # NoExc
    /\ cs[Len(cs)].op \in {"trigger", "flush", "sigUpdate", "queueUpdate"}
    /\ exc' = NoExc
    /\ cs' = [cs EXCEPT ![Len(cs)].q = <<>>,
                        ![Len(cs)].i = IF cs[Len(cs)].op = "sigUpdate"
                                       THEN Len(sigSubscribers[cs[Len(cs)].t]) ELSE @]
    /\ log' = Append(log, Ev("swallow", cs[Len(cs)].op, IF exc = Circular THEN 1 ELSE 0, 0))
    /\ UNCHANGED <<trackerVars, signalVars, effState, lastCall, preIdx, thrown, steps>>

CatchSite(op) == op \in {"trigger", "flush", "sigUpdate", "queueUpdate"}

Swallow ==
    /\ exc # NoExc
    /\ CatchSite(Top.op)
    /\ exc' = NoExc
    /\ log' = Append(log, Ev("swallow", Top.op, IF exc = Circular THEN 1 ELSE 0, 0))
    /\ UNCHANGED <<trackerVars, signalVars, effState, cs, lastCall, preIdx, thrown, steps>>

\* A scripted callback: run its next statement, or return at its end.
StepScript ==
    /\ Top.op = "script"
    /\ exc = NoExc
    /\ IF Top.i > Len(Top.body)
       THEN Resume(Pop, NoExc)
       ELSE LET o == Top.body[Top.i]
                b == Append(Pop, [Top EXCEPT !.i = @ + 1])
            IN  /\ UNCHANGED <<thrown, steps>>
                /\ CASE o.op = "track" -> DoTrack(b, log, o.t, o.k)
                     [] o.op = "trigger" -> DoTrigger(b, log, o.t, o.k)
                     [] o.op = "read" -> DoGetValue(b, log, o.t)
                     [] o.op = "readlog" ->
                            /\ DoGetValue(b, Append(log, Ev("read", Top.c, value[o.t], 0)), o.t)
                     [] o.op = "readlogc" -> DoGetComputed(b, log, o.t)
                     [] o.op = "write" -> DoSetValue(b, log, o.t, o.v)
                     [] o.op = "derive" -> DoSetValue(b, log, o.t, DerivedValue)
                     [] o.op = "divide" -> DoRecomputeDivision(b, log)
                     [] o.op = "inc" -> DoSetValue(b, log, o.t, (value[o.t] + 1) % (MaxVal + 1))
                     [] o.op = "cleanupContext" -> DoCleanupContext(b, log, o.t)
                     [] o.op = "withTracking" ->
                            DoWithTracking(b, log, o.t, ScriptFrame(o.t, ReaderBody))
                     [] o.op = "throw" ->
                            /\ cs' = b
                            /\ exc' = UserError
                            /\ log' = Append(log, Ev("throw", Top.c, 0, 0))
                            /\ UNCHANGED <<trackerVars, signalVars, effState, lastCall, preIdx>>

\* A scripted callback has no try block: a failure leaves it.
Propagate ==
    /\ exc # NoExc
    /\ Top.op = "script"
    /\ Resume(Pop, exc)

\* A failure that reaches the top-level program.
Uncaught ==
    /\ exc # NoExc
    /\ Top.op = "main"
    /\ thrown' = exc
    /\ exc' = NoExc
    /\ UNCHANGED <<trackerVars, signalVars, effState, cs, log, lastCall, preIdx, steps>>

\* ------------------------------------------------------------------ user code
\* The top-level program and the functions it passes to withTracking and
\* batchUpdates are open: at each point they may make any library call, up
\* to n calls in all.  A call made by the top-level program starts a new
\* top-level operation, whose events `log` and `thrown` then describe.

Open(n) == exc = NoExc /\ Top.op \in {"main", "fn"} /\ steps < n

OpenLog == IF Top.op = "main" THEN <<>> ELSE log

Count ==
    /\ steps' = steps + 1
    /\ thrown' = IF Top.op = "main" THEN NoExc ELSE thrown

CallTrack(n, T, K) ==
    \E t \in T, k \in K : Open(n) /\ DoTrack(cs, OpenLog, t, k) /\ Count

CallTrigger(n, T, K) ==
    \E t \in T, k \in K : Open(n) /\ DoTrigger(cs, OpenLog, t, k) /\ Count

CallGetDependencies(n, T) ==
    \E t \in T : Open(n) /\ DoGetDependencies(cs, OpenLog, t) /\ Count

CallGetSubscribers(n, C) ==
    \E c \in C : Open(n) /\ DoGetSubscribers(cs, OpenLog, c) /\ Count

CallCleanupContext(n, C) ==
    \E c \in C : Open(n) /\ DoCleanupContext(cs, OpenLog, c) /\ Count

CallClearDependencies(n, T) ==
    \E t \in T : Open(n) /\ DoClearDependencies(cs, OpenLog, t) /\ Count

\* The same two calls by a caller that notes each of them in the log.
CallTrackNoted(n, T, K) ==
    \E t \in T, k \in K :
        /\ Open(n)
        /\ DoTrack(cs, Append(OpenLog, Ev("track", getCurrentContext(executionStack), 0, 0)), t, k)
        /\ Count

CallCleanupContextNoted(n, C) ==
    \E c \in C :
        Open(n) /\ DoCleanupContext(cs, Append(OpenLog, Ev("cleanup", c, 0, 0)), c) /\ Count

CallWithTracking(n, C) ==
    \E c \in C : Open(n) /\ DoWithTracking(cs, OpenLog, c, FnFrame) /\ Count

CallBatchUpdates(n) ==
    Open(n) /\ DoBatchUpdates(cs, OpenLog, FnFrame) /\ Count

CallSetValue(n, S, V) ==
    \E s \in S, v \in V : Open(n) /\ DoSetValue(cs, OpenLog, s, v) /\ Count

CallGetValue(n, S) ==
    \E s \in S : Open(n) /\ DoGetValue(cs, OpenLog, s) /\ Count

CallPeek(n, S) ==
    \E s \in S : Open(n) /\ DoPeek(cs, OpenLog, s) /\ Count

CallSubscribe(n, S, B) ==
    \E s \in S, cb \in B : Open(n) /\ DoSubscribe(cs, OpenLog, s, cb) /\ Count

CallUnsubscribe(n, S, B) ==
    \E s \in S, cb \in B : Open(n) /\ DoUnsubscribe(cs, OpenLog, s, cb) /\ Count

CallDispose(n, S) ==
    \E s \in S : Open(n) /\ DoDispose(cs, OpenLog, s) /\ Count

CallClearSubscribers(n, S) ==
    \E s \in S : Open(n) /\ DoClearSubscribers(cs, OpenLog, s) /\ Count

CallDisposeEffect(n, E) ==
    \E e \in E : Open(n) /\ DoDisposeEffect(cs, OpenLog, e) /\ Count

\* The derived signal exists: derived() has returned it.
DerivedMade == effState["d1"] # "none"

\* The program can subscribe to the derived signal, and write it, only once
\* derived() has returned it.
CallSubscribeDerived(n, B) ==
    DerivedMade /\ CallSubscribe(n, {"d1"}, B)

CallSetDerived(n, V) ==
    DerivedMade /\ CallSetValue(n, {"d1"}, V)

CallDerived(n) ==
    Open(n) /\ DoDerived(cs, OpenLog) /\ Count

CallDisposeDerived(n) ==
    Open(n) /\ DoDisposeDerived(cs, OpenLog) /\ Count

\* The program subscribes the logging callback to MultiSignals once ...
CallSubscribeToMultiple(n) ==
    /\ Open(n)
    /\ effState["m1"] = "none"
    /\ DoSubscribeToMultiple(cs, OpenLog, MultiSignals, "cbLog")
    /\ Count

\* ... may pass an array with an invalid item ...
CallSubscribeToInvalid(n) ==
    \E arr \in InvalidArrays :
        Open(n) /\ DoSubscribeToMultiple(cs, OpenLog, arr, "cbNone") /\ Count

\* ... and may call the closure it got back.
CallUnsubscribeMultiple(n) ==
    Open(n) /\ DoUnsubscribeMultiple(cs, OpenLog, MultiSignals, "cbLog") /\ Count

CallDerivedDivision(n) ==
    Open(n) /\ DoDerivedDivision(cs, OpenLog) /\ Count

CallNewEffect(n, E) ==
    \E e \in E : Open(n) /\ DoNewEffect(cs, OpenLog, e) /\ Count

CallQueueUpdate(n, F) ==
    \E f \in F : Open(n) /\ DoQueueUpdate(cs, OpenLog, f) /\ Count

\* The open function throws an error of its own.
FnThrow(n) ==
    /\ Open(n)
    /\ Top.op = "fn"
    /\ exc' = UserError
    /\ log' = Append(log, Ev("throw", "fn", 0, 0))
    /\ Count
    /\ UNCHANGED <<trackerVars, signalVars, effState, cs, lastCall, preIdx>>

\* The open function returns.
FnReturn ==
    /\ exc = NoExc
    /\ Top.op = "fn"
    /\ Resume(Pop, NoExc)

\* The open function returns a value of its own choice with a return
\* statement: `return fn()` in withTracking or batchUpdates has then
\* evaluated to it.
FnReturnsValue(R) ==
    \E r \in R :
        /\ exc = NoExc
        /\ Top.op = "fn"
        /\ cs' = [Pop EXCEPT ![Len(cs) - 1].ret = r]
        /\ log' = Append(log, Ev("return", "fn", r, 0))
        /\ UNCHANGED <<trackerVars, signalVars, effState, exc, lastCall, preIdx,
                       thrown, steps>>

\* The open function lets a failure of a call it made pass through ...
FnPropagate ==
    /\ exc # NoExc
    /\ Top.op = "fn"
    /\ Resume(Pop, exc)

\* ... or catches it (as assert.throws does in the tracker's tests).
FnCatch ==
    /\ exc # NoExc
    /\ Top.op = "fn"
    /\ Resume(cs, NoExc)

\* ------------------------------------------------------------------ specifications

Init ==
    /\ executionStack = <<>>
    /\ dependencies = [t \in Objs |-> NoDeps]
    /\ subscribers = [c \in Ctxs |-> NoSubs]
    /\ batchDepth = 0
    /\ pendingUpdates = <<>>
    /\ value = [s \in Sigs \cup Computeds |-> 0]
    /\ sigSubscribers = [s \in Sigs |-> <<>>]
    /\ effState = [e \in Effects \cup Computeds \cup {"d1", "m1"} |->
                       IF e \in Computeds THEN "dirty" ELSE "none"]
    /\ cs = << MainFrame >>
    /\ exc = NoExc
    /\ log = <<>>
    /\ lastCall = [n |-> 0, op |-> "none", t |-> "", k |-> "", c |-> "", v |-> 0, res |-> ""]
    /\ preIdx = NoIdx
    /\ thrown = NoExc
    /\ steps = 0

\* The Tracker used directly, as its tests use it: contexts cm and cp,
\* targets s1 and cm (a context that is also a source), both keys.
MaxStepsTracker == 5

TrackerCtxs == {"cm", "cp"}

TrackerTargets == {"s1", "cm"}

NextTracker ==
    \/ CallWithTracking(MaxStepsTracker, TrackerCtxs)
    \/ CallTrack(MaxStepsTracker, TrackerTargets, Keys)
    \/ CallTrigger(MaxStepsTracker, TrackerTargets, Keys)
    \/ CallCleanupContext(MaxStepsTracker, TrackerCtxs)
    \/ CallClearDependencies(MaxStepsTracker, TrackerTargets)
    \/ CallGetDependencies(MaxStepsTracker, {"s1"})
    \/ CallGetSubscribers(MaxStepsTracker, {"cm"})
    \/ FnReturn
    \/ FnPropagate
    \/ FnCatch
    \/ StepWithTracking
    \/ StepTrigger
    \/ StepScript
    \/ Uncaught

SpecTracker == Init /\ [][NextTracker]_vars

\* ------------------------------------------------------------------ claims on the indices

\* C1: after any sequence of track, trigger, cleanupContext and
\* clearDependencies calls, an edge (target, key, context) is in the forward
\* index if and only if it is in the reverse index.
C1_ForwardIffReverse ==
    \A t \in Objs, k \in Keys, c \in Ctxs :
        FwdEdge(dependencies, t, k, c) <=> RevEdge(subscribers, t, k, c)

\* C8: after clearDependencies(target) returns, no edge with target as the
\* source remains in the forward index or in any context's reverse entry.
C8_ClearDropsSourceEdges ==
    lastCall.op = "clearDependencies" =>
        \A k \in Keys, c \in Ctxs :
            /\ ~FwdEdge(dependencies, lastCall.t, k, c)
            /\ ~RevEdge(subscribers, lastCall.t, k, c)

\* C9: after cleanupContext(context) returns, no edge with context as the
\* subscriber remains in either index, no emptied Set or Map is left in the
\* forward index, and hasSubscribers is false for every (target, key) that
\* only context subscribed to.
C9_CleanupDropsSubscriberEdges ==
    lastCall.op = "cleanupContext" =>
        /\ \A t \in Objs, k \in Keys :
              /\ ~FwdEdge(dependencies, t, k, lastCall.c)
              /\ ~RevEdge(subscribers, t, k, lastCall.c)
        /\ \A t \in Objs :
              dependencies[t].has =>
                  /\ dependencies[t].keys # {}
                  /\ \A k \in dependencies[t].keys : dependencies[t].subs[k] # <<>>
        /\ \A t \in Objs, k \in Keys :
              (k \in preIdx.deps[t].keys /\ Range(preIdx.deps[t].subs[k]) = {lastCall.c})
                  => hasSubscribers(dependencies, t, k) = "false"

\* A context that holds no edge in either index.
HoldsNoEdges(idx, c) ==
    \A t \in Objs, k \in Keys : ~FwdEdge(idx.deps, t, k, c) /\ ~RevEdge(idx.subs, t, k, c)

\* C10: cleanupContext is idempotent: right after cleanupContext(context) a
\* second call leaves both indices as they are, and a call for a context
\* that held no edge changed nothing the indices record: the forward index
\* and the reverse entries of the other contexts are as they were, and the
\* context's own reverse entry, which held no target, is absent (an empty
\* Map that getSubscribers had put there is pruned with it).
C10_CleanupIdempotent ==
    lastCall.op = "cleanupContext" =>
        LET again == cleanupContext(dependencies, subscribers, lastCall.c)
        IN  /\ again.deps = dependencies
            /\ again.subs = subscribers
            /\ HoldsNoEdges(preIdx, lastCall.c) =>
                   /\ dependencies = preIdx.deps
                   /\ preIdx.subs[lastCall.c].targets = {}
                   /\ subscribers = [preIdx.subs EXCEPT ![lastCall.c] = NoSubs]

\* C10 witness: cleanupContext has just removed a context that subscribed to
\* two different targets under the same key.
C10_Witness ==
    /\ lastCall.op = "cleanupContext"
    /\ \E t1, t2 \in Objs, k \in Keys :
          /\ t1 # t2
          /\ FwdEdge(preIdx.deps, t1, k, lastCall.c) /\ RevEdge(preIdx.subs, t1, k, lastCall.c)
          /\ FwdEdge(preIdx.deps, t2, k, lastCall.c) /\ RevEdge(preIdx.subs, t2, k, lastCall.c)
    /\ HoldsNoEdges([deps |-> dependencies, subs |-> subscribers], lastCall.c)

\* ------------------------------------------------------------------ signals, batches, effects

\* Signals with direct subscribers and Effects, written inside and outside
\* batches: signal s1, the logging callback, Effects e1 (reads s1) and
\* e2 (reads and writes s1).
MaxStepsBatch == 5

NextBatch ==
    \/ CallSubscribe(MaxStepsBatch, {"s1"}, {"cbLog"})
    \/ CallNewEffect(MaxStepsBatch, {"e1", "e2"})
    \/ CallSetValue(MaxStepsBatch, {"s1"}, Vals)
    \/ CallBatchUpdates(MaxStepsBatch)
    \/ FnReturn
    \/ StepBatchExit
    \/ StepFlush
    \/ StepWithTracking
    \/ StepTrigger
    \/ StepSigUpdate
    \/ StepScript

SpecBatch == Init /\ [][NextBatch]_vars

\* Signal.batch with a function that returns a value, as the signal test
\* calls it: the logging callback subscribed to s1, the Effect e1 reading
\* s1 (so that a batch has something to flush), writes inside and outside
\* nested batches.
MaxStepsBatchResult == 5

\* What a batched function returns: nothing, or a value
\* ('batch-complete' in the signal test).
FnResults == {Undefined, 1}

NextBatchResult ==
    \/ CallSubscribe(MaxStepsBatchResult, {"s1"}, {"cbLog"})
    \/ CallNewEffect(MaxStepsBatchResult, {"e1"})
    \/ CallSetValue(MaxStepsBatchResult, {"s1"}, {1, 2})
    \/ CallBatchUpdates(MaxStepsBatchResult)
    \/ FnReturnsValue(FnResults)
    \/ StepBatchExit
    \/ StepFlush
    \/ StepWithTracking
    \/ StepTrigger
    \/ StepSigUpdate
    \/ StepScript

SpecBatchResult == Init /\ [][NextBatchResult]_vars

\* The cycle guard: the marked context cm, the context cu whose update()
\* writes s1, and the callback that writes s1, subscribed to s2.
MaxStepsCycle == 5

NextCycle ==
    \/ CallWithTracking(MaxStepsCycle, {"cm", "cu"})
    \/ CallGetValue(MaxStepsCycle, {"s1", "s2"})
    \/ CallSetValue(MaxStepsCycle, {"s2"}, Vals \ {0})
    \/ CallTrigger(MaxStepsCycle, {"s1"}, {"value"})
    \/ CallSubscribe(MaxStepsCycle, {"s2"}, {"cbWrite"})
    \/ CallBatchUpdates(MaxStepsCycle)
    \/ FnReturn
    \/ FnPropagate
    \/ FnCatch
    \/ StepBatchExit
    \/ StepFlush
    \/ StepWithTracking
    \/ StepTrigger
    \/ StepSigUpdate
    \/ StepScript
    \/ Swallow
    \/ Propagate
    \/ Uncaught

SpecCycle == Init /\ [][NextCycle]_vars

\* ------------------------------------------------------------------ claims on propagation

\* The events of one kind in the log.
Events(kind) == SelectSeq(log, LAMBDA e : e.ev = kind)

\* The events of one kind about one object in the log.
EventsOf(kind, who) == SelectSeq(log, LAMBDA e : e.ev = kind /\ e.who = who)

\* The step is library call number lastCall'.n.
Called(op) == lastCall'.n # lastCall.n /\ lastCall'.op = op

\* C2: a write of the value a Signal already holds is a no-op: the value
\* stays, no frame of the setter is entered (so no direct subscriber runs and
\* trigger is not called), nothing is queued, and the only event is the write.
C2_SameValueWriteIsNoOp ==
    [][ (Called("setValue") /\ steps' # steps /\ lastCall'.v = value[lastCall'.t]) =>
            /\ value' = value
            /\ cs' = cs
            /\ pendingUpdates' = pendingUpdates
            /\ log' = Append(OpenLog, Ev("set", lastCall'.t, lastCall'.v, lastCall'.v)) ]_vars

\* C2 witness: a Signal with a direct subscriber and a graph subscriber has
\* just been written, from the top level, the non-initial value it holds.
C2_Witness ==
    /\ lastCall.op = "setValue"
    /\ Len(cs) = 1
    /\ log = << Ev("set", lastCall.t, lastCall.v, lastCall.v) >>
    /\ lastCall.v # 0
    /\ value[lastCall.t] = lastCall.v
    /\ Len(sigSubscribers[lastCall.t]) > 0
    /\ hasSubscribers(dependencies, lastCall.t, "value") = "true"

\* The calls user code has made in the current top-level operation.
UserCalls == SelectSeq(log, LAMBDA e : e.ev \in {"batch", "set", "subscribe", "effect"})

\* The top-level operation that has just ended was one batch.
BatchEnded ==
    /\ Len(cs) = 1
    /\ exc = NoExc
    /\ Len(log) > 0
    /\ log[1].ev = "batch"

\* C3: K >= 1 writes inside one batch, each notifying the same Effect through
\* trigger, end in exactly one execution of that Effect's update() at flush.
C3_BatchRunsEffectOnce ==
    \A e \in Effects :
        (BatchEnded /\ Len(EventsOf("queue", e)) >= 1) => Len(EventsOf("update", e)) = 1

\* C4: a = signal(0) with one subscriber that logs each notification, and
\* batch(() => { a.value = 1; a.value = 2 }): exactly one notification is
\* logged and it carries 2.  The subscriber is a subscribe() callback or an
\* Effect reading the signal.
C4_BatchLogsFinalValueOnce ==
    (/\ BatchEnded
     /\ UserCalls = << Ev("batch", "", 0, 0), Ev("set", "s1", 1, 0), Ev("set", "s1", 2, 1) >>) =>
        /\ (sigSubscribers["s1"] = << "cbLog" >> /\ dependencies["s1"] = NoDeps) =>
               Events("callback") = << Ev("callback", "cbLog", 2, 0) >>
        /\ (sigSubscribers["s1"] = << >> /\ dependencies["s1"].subs["value"] = << "e1" >>) =>
               Events("read") = << Ev("read", "e1", 2, 0) >>

\* C5: when an Effect whose body is running, and which subscribes to a
\* signal, writes that signal, the trigger of the write raises the
\* circular-dependency error (so the Effect is not run again from inside
\* its own run).
C5_SelfWriteRaises ==
    [][ \A e \in Effects :
            (/\ Called("trigger")
             /\ e \in Range(executionStack)
             /\ FwdEdge(dependencies, lastCall'.t, lastCall'.k, e)) =>
                exc' = Circular ]_vars

\* C6: the circular-dependency error is never swallowed: no catch block of
\* queueUpdate, #flushUpdates or Signal.update ever handles it.
C6_CircularNeverSwallowed ==
    \A i \in DOMAIN log : ~(log[i].ev = "swallow" /\ log[i].v = 1)

\* Some context on the execution stack is marked for (target, key).
MarkedOnStack(t, k) ==
    \E i \in DOMAIN executionStack :
        CtxTarget(executionStack[i]) = t /\ CtxKey(executionStack[i]) = k

\* C7: trigger(target, key), called while a context on the live stack is
\* marked for (target, key) and (target, key) has a subscriber, raises the
\* circular-dependency error and neither runs nor queues any update.
C7_GuardRaisesBeforeNotifying ==
    [][ (/\ Called("trigger")
         /\ MarkedOnStack(lastCall'.t, lastCall'.k)
         /\ hasSubscribers(dependencies, lastCall'.t, lastCall'.k) = "true") =>
            /\ exc' = Circular
            /\ pendingUpdates' = pendingUpdates
            /\ cs'[Len(cs')].op # "trigger"
            /\ Events("update")' = Events("update")
            /\ Events("queue")' = Events("queue") ]_vars

\* C7 witness: the guard has just fired inside a batch for a context that is
\* on the stack below the current one.
C7_Witness ==
    /\ lastCall.op = "trigger"
    /\ exc = Circular
    /\ batchDepth > 0
    /\ MarkedOnStack(lastCall.t, lastCall.k)
    /\ CtxTarget(getCurrentContext(executionStack)) # lastCall.t
    /\ hasSubscribers(dependencies, lastCall.t, lastCall.k) = "true"

\* ------------------------------------------------------------------ failing updates

\* Subscribers whose update() throws: contexts ct (throws) and cp (does
\* nothing) subscribe to (s1, 'value'), which is triggered inside and
\* outside batches.
MaxStepsIsolation == 6

NextIsolation ==
    \/ CallWithTracking(MaxStepsIsolation, {"ct", "cp"})
    \/ CallTrack(MaxStepsIsolation, {"s1"}, {"value"})
    \/ CallTrigger(MaxStepsIsolation, {"s1"}, {"value"})
    \/ CallBatchUpdates(MaxStepsIsolation)
    \/ FnReturn
    \/ StepWithTracking
    \/ StepBatchExit
    \/ StepFlush
    \/ StepTrigger
    \/ StepScript
    \/ Propagate
    \/ Swallow

SpecIsolation == Init /\ [][NextIsolation]_vars

\* The top-level operation has ended.
Quiescent == Len(cs) = 1 /\ Len(log) > 0

\* C11: when trigger notifies several subscribers and one subscriber's
\* update() throws, every subscriber's update() has run once per
\* notification when the operation ends, and nothing was thrown to the
\* caller; the updates run at once or at the flush of a batch.
C11_FailingUpdateIsIsolated ==
    /\ Top.op \in {"main", "fn"} => (exc = NoExc /\ thrown = NoExc)
    /\ Quiescent => \A c \in Ctxs : Len(EventsOf("update", c)) = Len(EventsOf("notify", c))

\* Event a comes before event b in the log.
Before(a, b) ==
    \E i, j \in DOMAIN log : i < j /\ log[i] = a /\ log[j] = b

\* C11 witness: a batch has ended whose flush ran the throwing update of ct
\* first and the update of cp after it; and a trigger outside any batch has
\* done the same.
C11_Witness ==
    /\ Quiescent
    /\ Before(Ev("throw", "ct", 0, 0), Ev("update", "cp", 0, 0))
    /\ Before(Ev("batch", "", 0, 0), Ev("queue", "ct", 0, 0))
    /\ Before(Ev("queue", "ct", 0, 0), Ev("queue", "cp", 0, 0))
    /\ Before(Ev("queue", "cp", 0, 0), Ev("throw", "ct", 0, 0))

\* The same outside any batch.
C11_WitnessImmediate ==
    /\ Quiescent
    /\ Before(Ev("throw", "ct", 0, 0), Ev("update", "cp", 0, 0))
    /\ Events("batch") = << >>

\* ------------------------------------------------------------------ the batching queue

\* queueUpdate and batchUpdates used directly, as the tracker's tests use
\* them: update functions u1, u2 and ut (throws), batches nested freely, and a
\* batched function that may itself throw.
MaxStepsQueue == 6

NextQueue ==
    \/ CallBatchUpdates(MaxStepsQueue)
    \/ CallQueueUpdate(MaxStepsQueue, UpdateFns)
    \/ FnReturn
    \/ FnThrow(MaxStepsQueue)
    \/ FnPropagate
    \/ FnCatch
    \/ StepBatchExit
    \/ StepFlush
    \/ StepQueueUpdate
    \/ StepScript
    \/ Propagate
    \/ Swallow
    \/ Uncaught

SpecQueue == Init /\ [][NextQueue]_vars

\* The update functions queued, and those called, in the current top-level
\* operation, in order.
Who(evs) == [i \in DOMAIN evs |-> evs[i].who]

QueuedFns == Who(SelectSeq(log, LAMBDA e : e.ev = "queue" /\ e.who \in UpdateFns))

CalledFns == Who(SelectSeq(log, LAMBDA e : e.ev = "call" /\ e.who \in UpdateFns))

\* The step appends one event of this kind to the log.
Logs(kind) == Len(log') = Len(log) + 1 /\ log'[Len(log')].ev = kind

\* C12: with nested batches, no queued update runs while the batch depth is
\* above zero, the exit of an inner batch runs none and leaves the queue as
\* it is, and the exit of the outermost batch takes the whole queue: nothing
\* is pending at depth zero, and when the operation ends every queued update
\* function has been called.
C12_FlushOnlyAtOutermostExit ==
    /\ [](batchDepth = 0 => pendingUpdates = << >>)
    /\ []((Quiescent /\ Events("batch") # << >>) => Range(QueuedFns) = Range(CalledFns))
    /\ [][ /\ (Logs("call") \/ Logs("update")) => (batchDepth = 0 /\ batchDepth' = 0)
           /\ (batchDepth' < batchDepth /\ batchDepth' > 0) =>
                  (cs' = Pop /\ log' = log /\ pendingUpdates' = pendingUpdates) ]_vars

\* C12 witness: the outer batch queued u1, the inner batch queued u2, and
\* both ran after both batches had been entered and the operation ended.
C12_Witness ==
    /\ Quiescent
    /\ batchDepth = 0
    /\ log = << Ev("batch", "", 0, 0), Ev("queue", "u1", 0, 0), Ev("batch", "", 0, 0),
                Ev("queue", "u2", 0, 0), Ev("call", "u1", 0, 0), Ev("call", "u2", 0, 0) >>

\* The position of the first queuing of an update function.
FirstQueued(f) == CHOOSE i \in DOMAIN QueuedFns : QueuedFns[i] = f /\ \A j \in 1 .. (i - 1) : QueuedFns[j] # f

\* C13: the updates queued during a batch run at flush in the order in
\* which they were queued, across all nesting levels.
C13_FlushInQueueOrder ==
    (Events("batch") # << >>) =>
        \A i, j \in DOMAIN CalledFns :
            i < j => FirstQueued(CalledFns[i]) < FirstQueued(CalledFns[j])

\* C13 witness: three update functions queued at two nesting levels have
\* run, the throwing one in the middle.
C13_Witness ==
    /\ Quiescent
    /\ QueuedFns = << "u2", "ut", "u1" >>
    /\ CalledFns = << "u2", "ut", "u1" >>
    /\ Len(Events("batch")) = 2

\* The first occurrences of a sequence's elements, in order.
RECURSIVE Dedup(_)
Dedup(q) ==
    IF q = << >> THEN << >>
    ELSE LET r == Dedup(SubSeq(q, 1, Len(q) - 1))
         IN  IF q[Len(q)] \in Range(r) THEN r ELSE Append(r, q[Len(q)])

\* C14: an update function queued two or more times inside one batch runs
\* exactly once at flush, at the position of its first queuing.
C14_QueuedTwiceRunsOnce ==
    (Quiescent /\ Events("batch") # << >>) => CalledFns = Dedup(QueuedFns)

\* C14 witness: u1 was queued, then u2, then u1 again, and the flush ran u1
\* and then u2.
C14_Witness ==
    /\ Quiescent
    /\ QueuedFns = << "u1", "u2", "u1" >>
    /\ CalledFns = << "u1", "u2" >>

\* ------------------------------------------------------------------ the signal

\* One Signal with direct subscribers (logging, throwing, and one that
\* writes the signal again) and the graph subscriber cp, read with value
\* and with peek.
MaxStepsSignal == 5

NextSignal ==
    \/ CallSubscribe(MaxStepsSignal, {"s1"}, {"cbLog", "cbThrow", "cbMax"})
    \/ CallSetValue(MaxStepsSignal, {"s1"}, Vals)
    \/ CallWithTracking(MaxStepsSignal, {"cp"})
    \/ CallGetValue(MaxStepsSignal, {"s1"})
    \/ CallPeek(MaxStepsSignal, {"s1"})
    \/ FnReturn
    \/ StepWithTracking
    \/ StepSigUpdate
    \/ StepTrigger
    \/ StepScript
    \/ Propagate
    \/ Swallow

SpecSignal == Init /\ [][NextSignal]_vars

\* The top-level operation that has ended was a write of a changed value
\* (every other call that runs user code logs an event of its own first).
WriteEnded == Quiescent /\ log[1].ev = "set" /\ log[1].v # log[1].w

\* C15: a write of a changed value stores it, then invokes every direct
\* subscriber with the new value, and calls trigger only after all direct
\* subscribers have been invoked.
C15_StoreNotifyTrigger ==
    WriteEnded =>
        /\ \A cb \in Range(sigSubscribers[log[1].who]) :
               \E i \in DOMAIN log : log[i] = Ev("callback", cb, log[1].v, 0)
        /\ Len(Events("set")) = 1 =>
               \A i, j \in DOMAIN log :
                   (log[i].ev = "callback" /\ log[j].ev = "notify") => i < j

\* C16: when a direct subscriber throws during notification, the write does
\* not throw, every other direct subscriber is still invoked with the new
\* value, and the stored value is the new value.
C16_ThrowingSubscriberIsIsolated ==
    /\ Top.op \in {"main", "fn"} => (exc = NoExc /\ thrown = NoExc)
    /\ (WriteEnded /\ Events("throw") # << >>) =>
           /\ \A cb \in Range(sigSubscribers[log[1].who]) \ {"cbThrow"} :
                  \E i \in DOMAIN log : log[i] = Ev("callback", cb, log[1].v, 0)
           /\ Len(Events("set")) = 1 => value[log[1].who] = log[1].v

\* C20: peek() returns the stored value and registers no dependency: called
\* while a context is current it leaves both indices as they are, whereas a
\* read of value in the same context adds the edge (signal, 'value', context).
C20_PeekDoesNotTrack ==
    [][ /\ Called("peek") =>
              /\ lastCall'.v = value[lastCall'.t]
              /\ dependencies' = dependencies
              /\ subscribers' = subscribers
        /\ (Called("getValue") /\ executionStack # << >>) =>
              /\ FwdEdge(dependencies', lastCall'.t, "value", executionStack[Len(executionStack)])
              /\ RevEdge(subscribers', lastCall'.t, "value", executionStack[Len(executionStack)]) ]_vars

\* C20 witness: peek has just returned a written value to a context that is
\* current and holds no edge to the signal.
C20_Witness ==
    /\ lastCall.op = "peek"
    /\ lastCall.c = "cp"
    /\ executionStack = << "cp" >>
    /\ lastCall.v = value[lastCall.t]
    /\ lastCall.v # 0
    /\ ~FwdEdge(dependencies, lastCall.t, "value", "cp")
    /\ ~RevEdge(subscribers, lastCall.t, "value", "cp")

\* ------------------------------------------------------------------ claims on the execution stack

\* The contexts of the withTracking calls that have not returned yet,
\* outermost first.
OpenTrackings ==
    LET fs == SelectSeq(cs, LAMBDA f : f.op = "withTracking")
    IN  [i \in DOMAIN fs |-> fs[i].c]

\* C17: withTracking keeps the execution stack balanced: the stack always
\* holds exactly the contexts of the withTracking calls in progress, so when
\* a call returns or lets a failure of fn pass, at any nesting depth, the
\* stack is what it was before the call.
C17_StackBalanced == executionStack = OpenTrackings

\* C17 witness: a failure has passed through two nested withTracking calls
\* to the top level, and the stack is empty again.
C17_Witness ==
    /\ Len(cs) = 1
    /\ thrown = Circular
    /\ executionStack = << >>
    /\ Len(Events("withTracking")) = 2
    /\ Before(Ev("withTracking", "cm", 0, 0), Ev("raise", "s1", 0, 0))

\* C18: track(target, key) called while the execution stack is empty
\* changes neither index, and hasSubscribers(target, key) stays false.
C18_TrackWithoutContextIsNoOp ==
    [][ (Called("track") /\ executionStack = << >>) =>
            /\ dependencies' = dependencies
            /\ subscribers' = subscribers
            /\ hasSubscribers(dependencies, lastCall'.t, lastCall'.k) = "false" =>
                   hasSubscribers(dependencies', lastCall'.t, lastCall'.k) = "false" ]_vars

\* C18 witness: track has just been called from the top level, outside any
\* context, for a pair that has no subscriber, while another target has one.
C18_Witness ==
    /\ lastCall.op = "track"
    /\ lastCall.c = NoCtx
    /\ Len(cs) = 1
    /\ executionStack = << >>
    /\ hasSubscribers(dependencies, lastCall.t, lastCall.k) = "false"
    /\ \E t \in Objs, k \in Keys : hasSubscribers(dependencies, t, k) = "true"

\* C19: with nested contexts on the stack, track(target, key) records the
\* edge for the innermost context and changes the edges of no other
\* context, before and after an inner context is popped.
C19_TrackAttributesToInnermost ==
    [][ (Called("track") /\ executionStack # << >>) =>
            LET top == executionStack[Len(executionStack)]
            IN  /\ FwdEdge(dependencies', lastCall'.t, lastCall'.k, top)
                /\ RevEdge(subscribers', lastCall'.t, lastCall'.k, top)
                /\ \A c \in Ctxs \ {top}, t \in Objs, k \in Keys :
                       /\ FwdEdge(dependencies', t, k, c) <=> FwdEdge(dependencies, t, k, c)
                       /\ RevEdge(subscribers', t, k, c) <=> RevEdge(subscribers, t, k, c) ]_vars

\* C19 witness: the inner context cp read (s1, 'value') and was popped, and
\* the outer context cm has just read (s1, 'other'): each holds its own edge
\* only.
C19_Witness ==
    /\ lastCall.op = "track"
    /\ lastCall.c = "cm"
    /\ executionStack = << "cm" >>
    /\ Before(Ev("withTracking", "cm", 0, 0), Ev("withTracking", "cp", 0, 0))
    /\ FwdEdge(dependencies, "s1", "value", "cp")
    /\ ~FwdEdge(dependencies, "s1", "value", "cm")
    /\ FwdEdge(dependencies, "s1", "other", "cm")
    /\ ~FwdEdge(dependencies, "s1", "other", "cp")

\* ------------------------------------------------------------------ detaching subscribers

\* One Signal whose direct subscribers (logging, throwing) come and go
\* through subscribe and the returned closure, with the graph subscriber cp,
\* written and disposed.
MaxStepsDispose == 5

NextDispose ==
    \/ CallSubscribe(MaxStepsDispose, {"s1"}, {"cbLog", "cbThrow"})
    \/ CallUnsubscribe(MaxStepsDispose, {"s1"}, {"cbLog"})
    \/ CallSetValue(MaxStepsDispose, {"s1"}, {0, 1})
    \/ CallWithTracking(MaxStepsDispose, {"cp"})
    \/ CallGetValue(MaxStepsDispose, {"s1"})
    \/ CallDispose(MaxStepsDispose, {"s1"})
    \/ FnReturn
    \/ StepWithTracking
    \/ StepSigUpdate
    \/ StepTrigger
    \/ StepScript
    \/ Propagate
    \/ Swallow

SpecDispose == Init /\ [][NextDispose]_vars

\* The signal has no direct subscriber and no entry in the forward index.
Detached(s) == sigSubscribers[s] = << >> /\ ~dependencies[s].has

\* C21: dispose leaves the signal with zero direct subscribers and the
\* Tracker reporting no subscribers for (s, 'value'); a subscriber that is
\* detached stays detached until it subscribes or reads again; a write
\* invokes only the direct subscribers and graph subscribers attached at
\* that time; and a write to a signal still detached invokes nothing and
\* does not throw.
C21_DisposeDetaches ==
    [][ /\ Called("dispose") =>
              /\ sigSubscribers'[lastCall'.t] = << >>
              /\ hasSubscribers(dependencies', lastCall'.t, "value") = "false"
              /\ \A c \in Ctxs : ~FwdEdge(dependencies', lastCall'.t, "value", c)
        /\ \A s \in Sigs, cb \in Cbs :
              (/\ cb \notin Range(sigSubscribers[s])
               /\ ~(Called("subscribe") /\ lastCall'.t = s /\ lastCall'.c = cb)) =>
                  cb \notin Range(sigSubscribers'[s])
        /\ \A s \in Sigs, c \in Ctxs :
              (/\ ~FwdEdge(dependencies, s, "value", c)
               /\ ~(Called("getValue") /\ lastCall'.t = s /\ lastCall'.c = c)) =>
                  ~FwdEdge(dependencies', s, "value", c)
        /\ Called("callback") => lastCall'.c \in Range(sigSubscribers[lastCall'.t])
        /\ \A c \in Ctxs :
              (Logs("update") /\ log'[Len(log')].who = c) =>
                  \E s \in Sigs : FwdEdge(dependencies, s, "value", c)
        /\ (Top.op = "sigUpdate" /\ Detached(Top.t)) =>
              /\ cs' = Pop
              /\ exc' = NoExc
              /\ log' = log
              /\ lastCall'.res = "noSubscribers" ]_vars

\* C21 witness: inside one operation the signal got a direct subscriber and
\* the graph subscriber cp, was disposed and then written a new value: the
\* write has returned, having invoked nobody, and the Tracker reports no
\* subscribers.
C21_Witness ==
    /\ Top.op = "fn"
    /\ exc = NoExc
    /\ lastCall.op = "trigger"
    /\ lastCall.res = "noSubscribers"
    /\ Detached("s1")
    /\ hasSubscribers(dependencies, "s1", "value") = "false"
    /\ RevEdge(subscribers, "s1", "value", "cp")
    /\ Before(Ev("subscribe", "cbLog", 0, 0), Ev("dispose", "s1", 0, 0))
    /\ \E v \in Vals \ {0} : log[Len(log)] = Ev("set", "s1", v, 0)
    /\ log[Len(log) - 1] = Ev("dispose", "s1", 0, 0)
    /\ Events("callback") = << >>
    /\ Events("update") = << >>

\* C27: once the closure subscribe returned has been called, no later write
\* invokes the callback (unless it subscribes again), the other subscribers
\* stay subscribed and are invoked by the next write, and a second call of
\* the closure changes nothing.
C27_UnsubscribeStopsNotifications ==
    /\ [](\A cb \in Cbs : \A i, j \in DOMAIN log :
             (i < j /\ log[i] = Ev("unsubscribe", cb, 0, 0)
                    /\ log[j].ev = "callback" /\ log[j].who = cb) =>
                 \E k \in (i + 1) .. (j - 1) : log[k] = Ev("subscribe", cb, 0, 0))
    /\ [](WriteEnded =>
             \A cb \in Cbs :
                 cb \in Range(sigSubscribers[log[1].who]) <=> EventsOf("callback", cb) # << >>)
    /\ [][ Called("unsubscribe") =>
               /\ lastCall'.c \notin Range(sigSubscribers'[lastCall'.t])
               /\ \A cb \in Cbs \ {lastCall'.c} :
                      cb \in Range(sigSubscribers'[lastCall'.t]) <=>
                          cb \in Range(sigSubscribers[lastCall'.t])
               /\ lastCall'.c \notin Range(sigSubscribers[lastCall'.t]) =>
                      (sigSubscribers' = sigSubscribers /\ lastCall'.res = "false") ]_vars

\* C27 witness: two callbacks subscribed, the first was unsubscribed, and the
\* next write of a new value has invoked the second and not the first.
C27_Witness ==
    /\ Top.op = "fn"
    /\ exc = NoExc
    /\ Before(Ev("subscribe", "cbLog", 0, 0), Ev("subscribe", "cbThrow", 0, 0))
    /\ Before(Ev("subscribe", "cbThrow", 0, 0), Ev("unsubscribe", "cbLog", 0, 0))
    /\ \E v \in Vals \ {0} :
           /\ Before(Ev("unsubscribe", "cbLog", 0, 0), Ev("set", "s1", v, 0))
           /\ Before(Ev("set", "s1", v, 0), Ev("callback", "cbThrow", v, 0))
    /\ EventsOf("callback", "cbLog") = << >>
    /\ sigSubscribers["s1"] = << "cbThrow" >>

\* The number of writes of a changed value to a signal in the log.
ChangedWrites(s) ==
    Len(SelectSeq(log, LAMBDA e : e.ev = "set" /\ e.who = s /\ e.v # e.w))

\* C28: subscribing a callback that is already subscribed changes nothing,
\* subscribing a new one makes the count grow by one, no callback is listed
\* twice, and each write of a changed value invokes each subscribed callback
\* exactly once.
C28_SubscribeIsIdempotent ==
    /\ [](\A s \in Sigs : Cardinality(Range(sigSubscribers[s])) = Len(sigSubscribers[s]))
    /\ [](WriteEnded =>
             \A cb \in Range(sigSubscribers[log[1].who]) :
                 Len(EventsOf("callback", cb)) = ChangedWrites(log[1].who))
    /\ [][ Called("subscribe") =>
               IF lastCall'.c \in Range(sigSubscribers[lastCall'.t])
               THEN sigSubscribers' = sigSubscribers
               ELSE Len(sigSubscribers'[lastCall'.t]) = Len(sigSubscribers[lastCall'.t]) + 1 ]_vars

\* C28 witness: the same callback was subscribed twice, and the write of a
\* new value that followed has invoked it once.
C28_Witness ==
    /\ Top.op = "fn"
    /\ exc = NoExc
    /\ lastCall.op = "trigger"
    /\ Len(EventsOf("subscribe", "cbLog")) = 2
    /\ sigSubscribers["s1"] = << "cbLog" >>
    /\ \E v \in Vals \ {0} :
           /\ Before(Ev("subscribe", "cbLog", 0, 0), Ev("set", "s1", v, 0))
           /\ log[Len(log)] = Ev("callback", "cbLog", v, 0)
    /\ Len(EventsOf("callback", "cbLog")) = 1

\* ------------------------------------------------------------------ direct subscribers in a batch

\* The logging callback was subscribed to s1 when event i was logged.
SubscribedAt(i) ==
    \/ \E j \in 1 .. (i - 1) : log[j] = Ev("subscribe", "cbLog", 0, 0)
    \/ Events("subscribe") = << >> /\ "cbLog" \in Range(sigSubscribers["s1"])

\* The calls of batchUpdates and withTracking made, and the values returned
\* by batched functions, during the current top-level call, in order.
BatchesAndReturns ==
    SelectSeq(log, LAMBDA e : e.ev \in {"batch", "withTracking", "return"})

\* C26: a direct subscriber is called inside the write that changes the
\* value, with the value written, inside a batch as outside: in the log the
\* call follows the write at once, so when the batched function has control
\* again every write so far has been notified, in the order of the writes.
\* And Signal.batch returns the result of the function it ran: when the
\* code that called it runs again after a batched function has returned
\* (no other batch was entered since), the value it received from the call
\* is the value that function returned, whether or not the batch flushed.
C26_DirectSubscribersNotDeferred ==
    /\ \A i \in DOMAIN log :
          (log[i].ev = "set" /\ log[i].who = "s1" /\ log[i].v # log[i].w /\ SubscribedAt(i)) =>
              /\ Top.op \in {"main", "fn"} => i < Len(log)
              /\ i < Len(log) => log[i + 1] = Ev("callback", "cbLog", log[i].v, 0)
    /\ (/\ Top.op \in {"main", "fn"}
        /\ exc = NoExc
        /\ BatchesAndReturns # << >>
        /\ BatchesAndReturns[Len(BatchesAndReturns)].ev = "return") =>
           Top.ret = BatchesAndReturns[Len(BatchesAndReturns)].v

\* C26 witness: a batch has ended whose function wrote 1 and then 2 and
\* returned a value with the batch still open; the subscriber was called with
\* 1 before the second write and with 2 before the function returned; the
\* update of the Effect e1 was put aside by both writes and ran in the flush,
\* after the function had returned; and the caller has received the value.
C26_Witness ==
    /\ Top.op = "main"
    /\ batchDepth = 0
    /\ exc = NoExc
    /\ Len(log) > 0
    /\ log[1].ev = "batch"
    /\ Events("subscribe") = << >>
    /\ Who(Events("set")) = << "s1", "s1" >>
    /\ Events("callback") = << Ev("callback", "cbLog", 1, 0), Ev("callback", "cbLog", 2, 0) >>
    /\ Before(Ev("callback", "cbLog", 1, 0), Ev("set", "s1", 2, 1))
    /\ Before(Ev("callback", "cbLog", 2, 0), Ev("return", "fn", 1, 0))
    /\ Events("return") = << Ev("return", "fn", 1, 0) >>
    /\ Len(EventsOf("queue", "e1")) = 2
    /\ Before(Ev("return", "fn", 1, 0), Ev("update", "e1", 0, 0))
    /\ ~Before(Ev("update", "e1", 0, 0), Ev("return", "fn", 1, 0))
    /\ Top.ret = 1

\* ------------------------------------------------------------------ order of notification

\* Two contexts (cp, and ct whose update() throws) that track, are cleaned
\* up and track again one pair, which is then triggered.
MaxStepsOrder == 7

NextOrder ==
    \/ CallWithTracking(MaxStepsOrder, {"cp", "ct"})
    \/ CallTrackNoted(MaxStepsOrder, {"s1"}, {"value"})
    \/ CallCleanupContextNoted(MaxStepsOrder, {"cp"})
    \/ CallTrigger(MaxStepsOrder, {"s1"}, {"value"})
    \/ FnReturn
    \/ StepWithTracking
    \/ StepTrigger
    \/ StepScript
    \/ Propagate
    \/ Swallow

SpecOrder == Init /\ [][NextOrder]_vars

\* The subscribers of (target, key) in the forward index, in Set order.
SubsOf(deps, t, k) == IF deps[t].has /\ k \in deps[t].keys THEN deps[t].subs[k] ELSE << >>

\* C24: track puts a context that is not yet subscribed at the end of the
\* pair's subscribers and leaves the list as it is when the context is
\* already in it; cleanupContext takes the context out, so that a context
\* cleaned up and tracking again is last; and trigger runs the updates in
\* that order.
C24_NotifiedInInsertionOrder ==
    /\ []((Top.op \in {"main", "fn"} /\ exc = NoExc) =>
             Who(Events("update")) = Who(Events("notify")))
    /\ [][ /\ (Called("track") /\ lastCall'.c # NoCtx) =>
                  LET old == SubsOf(dependencies, lastCall'.t, lastCall'.k)
                      new == SubsOf(dependencies', lastCall'.t, lastCall'.k)
                  IN  IF lastCall'.c \in Range(old) THEN new = old
                      ELSE new = Append(old, lastCall'.c)
           /\ Called("cleanupContext") =>
                  \A t \in Objs, k \in Keys :
                      SubsOf(dependencies', t, k) = SetDelete(SubsOf(dependencies, t, k), lastCall'.c)
           /\ (Called("trigger") /\ lastCall'.res = "notify") =>
                  LET subs == SubsOf(dependencies, lastCall'.t, lastCall'.k)
                  IN  /\ Who(SubSeq(log', Len(log') - Len(subs) + 1, Len(log'))) = subs
                      /\ Len(log') = Len(IF steps' # steps THEN OpenLog ELSE log) + Len(subs) ]_vars

\* C24 witness: cp tracked the pair, then ct; cp was cleaned up and tracked
\* again; the trigger that followed ran the update of ct and then that of cp.
C24_Witness ==
    /\ Top.op = "fn"
    /\ exc = NoExc
    /\ log = << Ev("withTracking", "cp", 0, 0), Ev("track", "cp", 0, 0),
                Ev("withTracking", "ct", 0, 0), Ev("track", "ct", 0, 0),
                Ev("cleanup", "cp", 0, 0), Ev("track", "cp", 0, 0),
                Ev("notify", "ct", 0, 0), Ev("notify", "cp", 0, 0),
                Ev("update", "ct", 0, 0), Ev("throw", "ct", 0, 0),
                Ev("swallow", "trigger", 0, 0), Ev("update", "cp", 0, 0) >>

\* ------------------------------------------------------------------ updates outside a batch

\* A Signal read by the contexts cp and ct, written inside and outside
\* batches, and update functions handed to queueUpdate.
MaxStepsInline == 5

NextInline ==
    \/ CallWithTracking(MaxStepsInline, {"cp", "ct"})
    \/ CallGetValue(MaxStepsInline, {"s1"})
    \/ CallSetValue(MaxStepsInline, {"s1"}, {0, 1})
    \/ CallQueueUpdate(MaxStepsInline, {"u1", "ut"})
    \/ CallBatchUpdates(MaxStepsInline)
    \/ FnReturn
    \/ StepWithTracking
    \/ StepBatchExit
    \/ StepFlush
    \/ StepSigUpdate
    \/ StepTrigger
    \/ StepQueueUpdate
    \/ StepScript
    \/ Propagate
    \/ Swallow

SpecInline == Init /\ [][NextInline]_vars

\* User code has control and no failure is on its way.
UserIdle == Top.op \in {"main", "fn"} /\ exc = NoExc

\* C25: with no batch active, trigger runs the update of each subscriber it
\* collected as it comes to it, and queueUpdate(fn) runs fn in the call:
\* nothing is put aside, so when the write or the call has returned every
\* notified subscriber has been updated and nothing is pending.
C25_NoBatchRunsInline ==
    /\ []((UserIdle /\ batchDepth = 0) => pendingUpdates = << >>)
    /\ []((UserIdle /\ Events("batch") = << >>) =>
             /\ Events("queue") = << >>
             /\ \A c \in Ctxs : Len(EventsOf("update", c)) = Len(EventsOf("notify", c))
             /\ \A f \in UpdateFns :
                    (lastCall.op = "queueUpdate" /\ lastCall.c = f) =>
                        EventsOf("call", f) # << >>)
    /\ [][ /\ (Top.op = "trigger" /\ exc = NoExc /\ Top.q # << >> /\ batchDepth = 0) =>
                  /\ log' = Append(log, Ev("update", Head(Top.q).c, 0, 0))
                  /\ pendingUpdates' = pendingUpdates
           /\ (Top.op = "trigger" /\ Len(cs') < Len(cs)) => Top.q = << >>
           /\ (Called("queueUpdate") /\ batchDepth = 0) =>
                  /\ log' = Append(IF Top.op = "main" THEN << >> ELSE log,
                                   Ev("call", lastCall'.c, 0, 0))
                  /\ pendingUpdates' = pendingUpdates
                  /\ lastCall'.res = "ran" ]_vars

\* C25 witness: outside any batch, a write of a new value to a signal read
\* by cp and ct has returned, and both updates have run in it.
C25_Witness ==
    /\ Len(cs) = 1
    /\ batchDepth = 0
    /\ pendingUpdates = << >>
    /\ \E v \in Vals \ {0} :
           log = << Ev("set", "s1", v, 0), Ev("notify", "cp", 0, 0), Ev("notify", "ct", 0, 0),
                    Ev("update", "cp", 0, 0), Ev("update", "ct", 0, 0),
                    Ev("throw", "ct", 0, 0), Ev("swallow", "trigger", 0, 0) >>

\* ------------------------------------------------------------------ effects and computed values

\* The Effect e1 reading s1, the Effect e3 reading the Computed k1 that
\* doubles s1, writes of 1 and 2 inside and outside batches, and disposal
\* of e1.
MaxStepsEffect == 5

NextEffect ==
    \/ CallNewEffect(MaxStepsEffect, {"e1", "e3"})
    \/ CallDisposeEffect(MaxStepsEffect, {"e1"})
    \/ CallSetValue(MaxStepsEffect, {"s1"}, {1, 2})
    \/ CallBatchUpdates(MaxStepsEffect)
    \/ CallWithTracking(MaxStepsEffect, {"cp"})
    \/ FnReturn
    \/ StepBatchExit
    \/ StepFlush
    \/ StepWithTracking
    \/ StepTrigger
    \/ StepSigUpdate
    \/ StepInvalidate
    \/ StepScript

SpecEffect == Init /\ [][NextEffect]_vars

\* Event i of the log is the last disposal of the Effect, and its update was
\* queued before it.
DisposedWhileQueued(e, i) ==
    /\ log[i] = Ev("disposeEffect", e, 0, 0)
    /\ \A j \in (i + 1) .. Len(log) : log[j] # Ev("effect", e, 0, 0)
    /\ \E j \in 1 .. (i - 1) :
           /\ log[j] = Ev("queue", e, 0, 0)
           /\ \A l \in (j + 1) .. (i - 1) : log[l] # Ev("update", e, 0, 0)

\* C22: an Effect disposed inside a batch after a write queued its update:
\* the flush calls the queued update, which does nothing: after the
\* disposal the body does not run and the cleanup is not invoked again, and
\* when the batch has ended no edge has the Effect as subscriber.
C22_DisposeBeatsQueuedUpdate ==
    \A e \in Effects : \A i \in DOMAIN log :
        DisposedWhileQueued(e, i) =>
            /\ \A j \in (i + 1) .. Len(log) : log[j] # Ev("run", e, 0, 0)
            /\ \A j \in (i + 2) .. Len(log) : log[j] # Ev("cleanupFn", e, 0, 0)
            /\ BatchEnded =>
                   /\ HoldsNoEdges([deps |-> dependencies, subs |-> subscribers], e)
                   /\ effState[e] = "disposed"
                   /\ \E j \in (i + 1) .. Len(log) : log[j] = Ev("update", e, 0, 0)

\* C22 witness: e1 was constructed, a write in a batch queued its update, e1
\* was disposed before the batch ended, and the flush has called the update.
C22_Witness ==
    /\ BatchEnded
    /\ batchDepth = 0
    /\ lastCall.op = "update"
    /\ lastCall.res = "inactive"
    /\ \E v \in Vals \ {0} :
           log = << Ev("batch", "", 0, 0), Ev("set", "s1", v, 0),
                    Ev("notify", "e1", 0, 0), Ev("queue", "e1", 0, 0),
                    Ev("disposeEffect", "e1", 0, 0), Ev("cleanupFn", "e1", 0, 0),
                    Ev("update", "e1", 0, 0) >>

\* The values an Effect has logged in the current top-level operation.
Reads(e) == [i \in DOMAIN EventsOf("read", e) |-> EventsOf("read", e)[i].v]

\* C23: with b = computed(() => a.value * 2) and an effect that logs
\* b.value, the construction of the effect logs twice the value of a, and
\* each later write of a new value to a makes the effect log twice the new
\* value, exactly once: a = 1, then a.value = 2, gives the log [2, 4].
C23_ChainRunsEffectOnce ==
    /\ (Quiescent /\ log[1] = Ev("effect", "e3", 0, 0)) => Reads("e3") = << 2 * value["s1"] >>
    /\ (WriteEnded /\ log[1].who = "s1" /\ effState["e3"] = "active") =>
           Reads("e3") = << 2 * log[1].v >>
    /\ (UserIdle /\ log # << >> /\ log[1].ev = "withTracking" /\ Events("batch") = << >>
           /\ Events("effect") = << Ev("effect", "e3", 0, 0) >>) =>
           LET at == CHOOSE i \in DOMAIN log : log[i] = Ev("effect", "e3", 0, 0)
               before == SelectSeq(SubSeq(log, 1, at), LAMBDA x : x.ev = "set" /\ x.v # x.w)
               after == SelectSeq(SubSeq(log, at, Len(log)), LAMBDA x : x.ev = "set" /\ x.v # x.w)
           IN  /\ Len(Reads("e3")) = 1 + Len(after)
               /\ \A i \in DOMAIN after : Reads("e3")[i + 1] = 2 * after[i].v
               /\ before # << >> => Reads("e3")[1] = 2 * before[Len(before)].v

\* C23 witness: inside one operation a was set to 1, the effect was
\* constructed and a was set to 2: the effect has logged 2 and then 4.
C23_Witness ==
    /\ UserIdle
    /\ Top.op = "fn"
    /\ Reads("e3") = << 2, 4 >>
    /\ log = << Ev("withTracking", "cp", 0, 0), Ev("set", "s1", 1, 0),
                Ev("effect", "e3", 0, 0), Ev("run", "e3", 0, 0), Ev("read", "e3", 2, 0),
                Ev("set", "s1", 2, 1), Ev("notify", "k1", 0, 0), Ev("update", "k1", 0, 0),
                Ev("notify", "e3", 0, 0), Ev("update", "e3", 0, 0), Ev("run", "e3", 0, 0),
                Ev("read", "e3", 4, 0) >>

\* ------------------------------------------------------------------ derived signals

\* The derived signal d1 of s1 and s2, with a consumer subscribed to it;
\* the dependencies are written, inside and outside batches, and s1 and d1
\* may be disposed.  Nobody writes d1 directly.
MaxStepsDerived == 5

NextDerived ==
    \/ CallDerived(MaxStepsDerived)
    \/ CallSetValue(MaxStepsDerived, {"s1", "s2"}, {0, 1})
    \/ CallSubscribeDerived(MaxStepsDerived, {"cbLog"})
    \/ CallDispose(MaxStepsDerived, {"s1"})
    \/ CallDisposeDerived(MaxStepsDerived)
    \/ CallBatchUpdates(MaxStepsDerived)
    \/ FnReturn
    \/ StepBatchExit
    \/ StepSigUpdate
    \/ StepScript

SpecDerived == Init /\ [][NextDerived]_vars

\* The same, with a consumer that also writes d1 through its setter.
NextDerivedWritten ==
    \/ NextDerived
    \/ CallSetDerived(MaxStepsDerived, {0, 1})

SpecDerivedWritten == Init /\ [][NextDerivedWritten]_vars

\* The callbacks derived() subscribed to the dependencies are all in place.
DerivedLinked ==
    /\ effState["d1"] = "active"
    /\ \A i \in DOMAIN DerivedDeps : "cbDerive" \in Range(sigSubscribers[DerivedDeps[i]])

\* C29 as stated: whenever no call is in progress, a derived signal that
\* nobody writes directly holds computeFn of the current values of its
\* dependencies.
C29_DerivedFollowsDependencies ==
    (UserIdle /\ DerivedMade) => value["d1"] = DerivedValue

\* C29 amended: the same, as long as the callbacks derived() subscribed to
\* the dependencies are still subscribed (no dependency was disposed or
\* cleared, and the derived signal was not disposed).
C29_LinkedDerivedFollowsDependencies ==
    (UserIdle /\ DerivedLinked) => value["d1"] = DerivedValue

\* C29 witness: the derived signal was made, both dependencies were then
\* written new values, and it holds their sum.
C29_Witness ==
    /\ UserIdle
    /\ Top.op = "fn"
    /\ DerivedLinked
    /\ value["s1"] # 0
    /\ value["s2"] # 0
    /\ value["d1"] = value["s1"] + value["s2"]
    /\ Events("derived") = << Ev("derived", "d1", 0, 0) >>
    /\ Who(Events("set")) = << "s1", "d1", "s2", "d1" >>

\* C30: a derived signal is read-only: a write through its value setter by
\* a consumer does not change the value it holds.
C30_DerivedIsReadOnly ==
    [][ (Called("setValue") /\ steps' # steps /\ lastCall'.t = "d1" /\ DerivedMade) =>
            value'["d1"] = value["d1"] ]_vars

\* ------------------------------------------------------------------ a derived signal whose function throws

\* The derived signal d1 made with the division of s1 by s2, a consumer
\* subscribed to it, and writes to both dependencies; s1 takes the values
\* 0 and 2, s2 the values 0, 1 and 2.
MaxStepsDivision == 5

NextDivision ==
    \/ CallDerivedDivision(MaxStepsDivision)
    \/ CallSetValue(MaxStepsDivision, {"s1"}, {0, 2})
    \/ CallSetValue(MaxStepsDivision, {"s2"}, {0, 1, 2})
    \/ CallSubscribeDerived(MaxStepsDivision, {"cbLog"})
    \/ StepSigUpdate
    \/ StepScript

SpecDivision == Init /\ [][NextDivision]_vars

\* C31: when the computeFn of a derived signal throws during a
\* recomputation caused by a write to a dependency, the write does not
\* throw, the dependency holds the written value, the derived signal holds
\* the value it had (no write to it was made) and none of its subscribers
\* was called.
C31_FailingRecomputeKeepsValue ==
    /\ Top.op = "main" => exc = NoExc
    /\ (WriteEnded /\ EventsOf("throw", "cbDivide") # << >>) =>
           /\ value[log[1].who] = log[1].v
           /\ \A i \in DOMAIN log : log[i].ev = "throw" => value["d1"] = log[i].v
           /\ EventsOf("set", "d1") = << >>
           /\ \A cb \in Range(sigSubscribers["d1"]) : EventsOf("callback", cb) = << >>

\* C31 witness: the division signal held 2 / 1 = 2 and has a subscriber;
\* the write of 0 to the divisor has ended, the recomputation threw, and
\* the signal still holds 2.
C31_Witness ==
    /\ WriteEnded
    /\ log = << Ev("set", "s2", 0, 1), Ev("callback", "cbDivide", 0, 0),
                Ev("throw", "cbDivide", 2, 0) >>
    /\ value["s1"] = 2
    /\ value["s2"] = 0
    /\ value["d1"] = 2
    /\ sigSubscribers["d1"] = << "cbLog" >>

\* ------------------------------------------------------------------ disposing a derived signal

\* The derived sum d1, a consumer subscribed to the dependency s1 next to
\* it, writes to the dependencies, and the dispose of d1.
MaxStepsUnlink == 5

NextUnlink ==
    \/ CallDerived(MaxStepsUnlink)
    \/ CallSubscribe(MaxStepsUnlink, {"s1"}, {"cbLog"})
    \/ CallSetValue(MaxStepsUnlink, {"s1", "s2"}, {0, 1})
    \/ CallDisposeDerived(MaxStepsUnlink)
    \/ StepSigUpdate
    \/ StepScript

SpecUnlink == Init /\ [][NextUnlink]_vars

\* The callbacks derived() places on its dependencies.
DerivedCbs == {"cbDerive", "cbDivide"}

\* C32: dispose() of a derived signal removes from every dependency the
\* subscription derived() placed on it and leaves the dependency's other
\* subscribers in place and in order, and from then on no step (so no write
\* to a dependency) changes the value of the derived signal.
C32_DisposedDerivedIsUnlinked ==
    [][ /\ (Called("dispose") /\ lastCall'.res = "derived") =>
               \A i \in DOMAIN DerivedDeps :
                   /\ Range(sigSubscribers'[DerivedDeps[i]]) \cap DerivedCbs = {}
                   /\ sigSubscribers'[DerivedDeps[i]] =
                          SelectSeq(sigSubscribers[DerivedDeps[i]], LAMBDA cb : cb \notin DerivedCbs)
        /\ effState["d1"] = "disposed" => value'["d1"] = value["d1"] ]_vars

\* C32 witness: d1 was made and disposed, s1 kept its other subscriber,
\* and a write of a new value to s1 has ended that called that subscriber
\* only: d1 no longer holds the sum.
C32_Witness ==
    /\ WriteEnded
    /\ effState["d1"] = "disposed"
    /\ sigSubscribers["s1"] = << "cbLog" >>
    /\ sigSubscribers["s2"] = << >>
    /\ log = << Ev("set", "s1", 1, 0), Ev("callback", "cbLog", 1, 0) >>
    /\ value["d1"] # DerivedValue

\* ------------------------------------------------------------------ subscribing to several signals

\* subscribeToMultiple([s1, s2], cbLog), the returned closure, calls with
\* an invalid array, and writes to both signals.
MaxStepsMulti == 5

NextMulti ==
    \/ CallSubscribeToMultiple(MaxStepsMulti)
    \/ CallSubscribeToInvalid(MaxStepsMulti)
    \/ CallUnsubscribeMultiple(MaxStepsMulti)
    \/ CallSetValue(MaxStepsMulti, {"s1", "s2"}, {0, 1})
    \/ StepSigUpdate
    \/ StepScript
    \/ Uncaught

SpecMulti == Init /\ [][NextMulti]_vars

\* C33: after subscribeToMultiple(signals, callback) a write of a changed
\* value to any of the signals invokes callback once, with the value
\* written; once the returned closure was called, a write to any of the
\* signals does not invoke it.
C33_MultiSubscriptionFollowsWrites ==
    (WriteEnded /\ log[1].who \in Range(MultiSignals)) =>
        /\ effState["m1"] = "active" =>
               EventsOf("callback", "cbLog") = << Ev("callback", "cbLog", log[1].v, 0) >>
        /\ effState["m1"] = "released" => EventsOf("callback", "cbLog") = << >>

\* C33 witness: the callback was subscribed to s1 and s2 and a write of a
\* new value to s2, the second signal of the array, has invoked it.
C33_Witness ==
    /\ WriteEnded
    /\ effState["m1"] = "active"
    /\ sigSubscribers["s1"] = << "cbLog" >>
    /\ sigSubscribers["s2"] = << "cbLog" >>
    /\ log = << Ev("set", "s2", 1, 0), Ev("callback", "cbLog", 1, 0) >>

\* C35: when subscribeToMultiple throws because an item of the array is not
\* a Signal, no signal has gained a subscription: the subscriber Sets are as
\* they were before the call.
C35_RejectedCallHasNoEffect ==
    [][ (Called("subscribeToMultiple") /\ lastCall'.res = "raised") =>
            sigSubscribers' = sigSubscribers ]_vars

\* ------------------------------------------------------------------ clearing the direct subscribers

\* One Signal with direct subscribers (logging, doing nothing) and the
\* graph subscriber cp, cleared with clearSubscribers and written.
MaxStepsClear == 5

NextClear ==
    \/ CallSubscribe(MaxStepsClear, {"s1"}, {"cbLog", "cbNone"})
    \/ CallClearSubscribers(MaxStepsClear, {"s1"})
    \/ CallSetValue(MaxStepsClear, {"s1"}, {0, 1})
    \/ CallWithTracking(MaxStepsClear, {"cp"})
    \/ CallGetValue(MaxStepsClear, {"s1"})
    \/ FnReturn
    \/ StepWithTracking
    \/ StepSigUpdate
    \/ StepTrigger
    \/ StepScript

SpecClear == Init /\ [][NextClear]_vars

\* C34: clearSubscribers() leaves the signal with no direct subscriber and
\* both indices of the Tracker as they are; afterwards no callback is
\* invoked unless it subscribed again, while the trigger of a write still
\* notifies every context that holds an edge on the signal, and each
\* notified context has been updated when the write returns.
C34_ClearKeepsGraphEdges ==
    /\ [][ Called("clearSubscribers") =>
               /\ sigSubscribers'[lastCall'.t] = << >>
               /\ dependencies' = dependencies
               /\ subscribers' = subscribers ]_vars
    /\ [](\A i, j \in DOMAIN log :
             (i < j /\ log[i].ev = "clearSubscribers" /\ log[j].ev = "callback") =>
                 \E k \in (i + 1) .. (j - 1) : log[k] = Ev("subscribe", log[j].who, 0, 0))
    /\ [][ Called("trigger") =>
               \A c \in Ctxs :
                   FwdEdge(dependencies, lastCall'.t, "value", c) =>
                       log'[Len(log')].ev = "notify" /\
                       Len(SelectSeq(log', LAMBDA e : e = Ev("notify", c, 0, 0))) =
                           Len(EventsOf("notify", c)) + 1 ]_vars
    /\ [](UserIdle => \A c \in Ctxs : Len(EventsOf("update", c)) = Len(EventsOf("notify", c)))

\* C34 witness: inside one operation of context cp the signal was read,
\* got a direct subscriber, was cleared and then written a new value: the
\* write has returned, cp was updated and no callback was invoked.
C34_Witness ==
    /\ UserIdle
    /\ Top.op = "fn"
    /\ sigSubscribers["s1"] = << >>
    /\ FwdEdge(dependencies, "s1", "value", "cp")
    /\ log = << Ev("withTracking", "cp", 0, 0), Ev("subscribe", "cbLog", 0, 0),
                Ev("clearSubscribers", "s1", 0, 0), Ev("set", "s1", 1, 0),
                Ev("notify", "cp", 0, 0), Ev("update", "cp", 0, 0) >>

\* ------------------------------------------------------------------ a target that is also a context

\* C36: clearDependencies(t) leaves every edge in which t is the subscriber
\* of another target as it is: an edge (u, k, t) recorded in both indices
\* before the call is recorded in both after it.
C36_ClearKeepsSubscriberEdges ==
    [][ (Called("clearDependencies") /\ lastCall'.t \in Ctxs) =>
            \A u \in Objs \ {lastCall'.t}, k \in Keys :
                (/\ FwdEdge(dependencies, u, k, lastCall'.t)
                 /\ RevEdge(subscribers, u, k, lastCall'.t)) =>
                    /\ FwdEdge(dependencies', u, k, lastCall'.t)
                    /\ RevEdge(subscribers', u, k, lastCall'.t) ]_vars

\* ------------------------------------------------------------------ the pending set and the batch depth

\* Batches around writes and queueUpdate calls, with the context cu whose
\* update() writes s1: an update run by a flush notifies subscribers itself.
MaxStepsPending == 5

NextPending ==
    \/ CallWithTracking(MaxStepsPending, {"cu"})
    \/ CallGetValue(MaxStepsPending, {"s1", "s2"})
    \/ CallSetValue(MaxStepsPending, {"s2"}, {0, 1})
    \/ CallBatchUpdates(MaxStepsPending)
    \/ CallQueueUpdate(MaxStepsPending, {"u1"})
    \/ FnReturn
    \/ StepWithTracking
    \/ StepBatchExit
    \/ StepFlush
    \/ StepTrigger
    \/ StepSigUpdate
    \/ StepQueueUpdate
    \/ StepScript

SpecPending == Init /\ [][NextPending]_vars

\* C37: the batch depth is never negative; wherever caller code runs (the
\* top-level program, a function passed to the library, an update or
\* callback being executed) a depth of zero comes with an empty pending
\* set; and the pending set grows only in steps taken at a depth above zero.
C37_PendingOnlyInsideBatch ==
    /\ [](batchDepth >= 0)
    /\ []((Top.op \in {"main", "fn", "script"} /\ batchDepth = 0) => pendingUpdates = << >>)
    /\ [][ Len(pendingUpdates') > Len(pendingUpdates) =>
               (batchDepth > 0 /\ batchDepth' = batchDepth) ]_vars

\* C37 witness: the update of cu, queued by a write inside a batch, is being
\* executed by the flush: the depth is zero, nothing is pending, and the
\* write it has made to s1 has notified cu again at once.
C37_Witness ==
    /\ Top.op = "script"
    /\ Top.c = "cu"
    /\ batchDepth = 0
    /\ pendingUpdates = << >>
    /\ \E i \in DOMAIN cs : cs[i].op = "flush"
    /\ Len(EventsOf("queue", "cu")) = 1
    /\ Len(EventsOf("update", "cu")) = 2

\* The batchUpdates calls in progress.
OpenBatches == Len(SelectSeq(cs, LAMBDA f : f.op = "batchUpdates"))

\* C38: when the function passed to batchUpdates throws, the depth is back
\* to what it was before the call (it always equals the number of calls in
\* progress); at the exit of the outermost batch the whole pending set is
\* taken by the flush while the failure waits, and when the failure has
\* reached the top-level caller every queued update function has been
\* called once and nothing is pending.
C38_ThrowingBatchStillFlushes ==
    /\ [](batchDepth = OpenBatches)
    /\ [][ (Top.op = "batchUpdates" /\ exc # NoExc) =>
               /\ batchDepth' = batchDepth - 1
               /\ IF batchDepth' = 0 /\ pendingUpdates # << >>
                  THEN /\ cs' = Append(Pop, Frame("flush", "", "", pendingUpdates, 0, exc, <<>>))
                       /\ pendingUpdates' = << >>
                  ELSE /\ cs' = Pop
                       /\ exc' = exc
                       /\ pendingUpdates' = pendingUpdates ]_vars
    /\ []((Quiescent /\ thrown # NoExc /\ Events("batch") # << >>) =>
             /\ batchDepth = 0
             /\ pendingUpdates = << >>
             /\ CalledFns = Dedup(QueuedFns))

\* C38 witness: the batched function queued u1 and u2 and then threw; both
\* ran, and the failure has reached the caller.
C38_Witness ==
    /\ Quiescent
    /\ thrown = UserError
    /\ batchDepth = 0
    /\ pendingUpdates = << >>
    /\ log = << Ev("batch", "", 0, 0), Ev("queue", "u1", 0, 0), Ev("queue", "u2", 0, 0),
                Ev("throw", "fn", 0, 0), Ev("call", "u1", 0, 0), Ev("call", "u2", 0, 0) >>

\* ------------------------------------------------------------------ the set a trigger updates
\* The contexts cx and cp subscribe to (s1, "value"); cx's update() removes
\* cp's edges and subscribes cm while the trigger is still going through its
\* updates.  Triggers are made at the top level, inside tracked functions
\* and inside batches.
MaxStepsSnapshot == 5

NextSnapshot ==
    \/ CallWithTracking(MaxStepsSnapshot, {"cx", "cp"})
    \/ CallTrack(MaxStepsSnapshot, {"s1"}, {"value"})
    \/ CallTrigger(MaxStepsSnapshot, {"s1"}, {"value"})
    \/ CallBatchUpdates(MaxStepsSnapshot)
    \/ FnReturn
    \/ StepWithTracking
    \/ StepBatchExit
    \/ StepFlush
    \/ StepTrigger
    \/ StepScript

SpecSnapshot == Init /\ [][NextSnapshot]_vars

\* C39: a trigger updates exactly the contexts that were subscribed when it
\* was entered.  Once every trigger of a top-level call has run its updates
\* (caller code is running and no update waits in a batch), the contexts
\* updated are, in order, the contexts found subscribed at the entry of each
\* trigger: a context whose edge an earlier sibling removed is still
\* updated, and a context that subscribed during the propagation is not.
C39_TriggerUpdatesEntrySnapshot ==
    (UserIdle /\ batchDepth = 0 /\ pendingUpdates = << >>) =>
        Who(Events("update")) = Who(Events("notify"))

\* C39 witness: cx and cp, in this order, were subscribed when trigger was
\* entered; cx's update removed cp's edge and subscribed cm; cp was updated
\* all the same and cm was not, although cm is now subscribed and cp is not.
C39_Witness ==
    /\ Quiescent
    /\ Who(Events("notify")) = << "cx", "cp" >>
    /\ Who(Events("update")) = << "cx", "cp" >>
    /\ ~FwdEdge(dependencies, "s1", "value", "cp")
    /\ FwdEdge(dependencies, "s1", "value", "cm")
    /\ EventsOf("update", "cm") = << >>

\* ------------------------------------------------------------------ a subscriber that writes back
\* The last value a direct subscriber was called with during the current
\* top-level call.
LastDelivered(cb) == EventsOf("callback", cb)[Len(EventsOf("callback", cb))].v

\* The writes of the current top-level call that changed the value.
ChangingWrites == SelectSeq(log, LAMBDA e : e.ev = "set" /\ e.v # e.w)

\* C40: when a direct subscriber writes a different value to the signal it
\* is being notified by, then, once the outermost write has returned, every
\* callback that is subscribed and was called during the write was last
\* called with the value the signal now holds.
C40_ReentrantWriteConverges ==
    (WriteEnded /\ log[1].who = "s1") =>
        \A cb \in Range(sigSubscribers["s1"]) :
            EventsOf("callback", cb) # << >> => LastDelivered(cb) = value["s1"]

\* C40 witness: cbMax, subscribed before cbLog, answered the write of 1 by
\* writing the largest value; cbLog was called by the nested write and then
\* by the outer one, both times with the value the signal holds at the end.
C40_Witness ==
    /\ WriteEnded
    /\ sigSubscribers["s1"] = << "cbMax", "cbLog" >>
    /\ log[1] = Ev("set", "s1", 1, 0)
    /\ Len(ChangingWrites) = 2
    /\ value["s1"] = MaxVal
    /\ Who(Events("callback")) = << "cbMax", "cbMax", "cbLog", "cbLog" >>
    /\ LastDelivered("cbLog") = MaxVal

====
